---- MODULE Spec2Model ----
(***************************************************************************)
(* The simulated WiFi router: the module-level RouterState singleton of    *)
(* wifi_router_shared/router.py and the separate singleton of              *)
(* wifi_router_mcp/server.py, with their resource readers, tool executors  *)
(* and prompt builders.                                                    *)
(*                                                                         *)
(* Conventions.  A Python dict is a function whose domain is its key set.  *)
(* Python floats with two decimals are integers counting hundredths        *)
(* (95.5 Mbps is 9550).  datetime.now() is the wall clock of the           *)
(* environment: its rendering in a log line is the fixed text "[ts] " and  *)
(* its isoformat() in a result is the fixed text "ts".                     *)
(***************************************************************************)
EXTENDS Integers, Sequences, FiniteSets, TLC

VARIABLES
    router_state,   \* module name -> that module's RouterState singleton
    response,       \* the last request and what was handed back to its caller
    twin_state,     \* the shared RouterState of a second run of the program, which is
                    \* sent the same requests except for the secrets in them
    tasks           \* task id -> the request a coroutine of the server's event loop is
                    \* serving, its position in the handler, its locals and its answer

vars == <<router_state, response, twin_state, tasks>>

(***************************************************************************)
(* Bounds of the exploration.                                              *)
(***************************************************************************)
\* log-writing calls explored along one behaviour
MaxNewLogs == 2

\* requests in flight on the event loop at the same time
MaxTasks == 2

(***************************************************************************)
(* Python helpers.                                                         *)
(***************************************************************************)
\* the empty dict {}
EmptyDict == [k \in {} |-> TRUE]

\* the value None where a dict was expected
None == [None |-> TRUE]

\* dict.get(key, default)
Get(d, key, default) == IF key \in DOMAIN d THEN d[key] ELSE default

\* a slip: list.append(x) in place of list.insert(0, x)
Insert0_append(list, x) == list \o <<x>>

\* list.insert(0, x)
Insert0(list, x) == <<x>> \o list

\* f"[{datetime.now().strftime('%Y-%m-%d %H:%M:%S')}] " followed by the text
Stamp(text) == "[ts] " \o text

\* next((i for i in 1..len(list) if list[i]["mac"] == mac), None): 0 is None
FirstWithMac(list, mac) ==
    IF \E i \in 1..Len(list) : list[i].mac = mac
    THEN CHOOSE i \in 1..Len(list) :
            /\ list[i].mac = mac
            /\ \A j \in 1..(i - 1) : list[j].mac # mac
    ELSE 0

\* a slip: list.pop(0) in place of list.remove(x)
ListRemove_pop0(list, x) == Tail(list)

\* list.remove(x): deletes the first element equal to x
ListRemove(list, x) ==
    LET i == CHOOSE k \in 1..Len(list) :
                /\ list[k] = x
                /\ \A j \in 1..(k - 1) : list[j] # x
    IN  SubSeq(list, 1, i - 1) \o SubSeq(list, i + 1, Len(list))

\* f"{uptime_seconds // 86400} days, {(uptime_seconds % 86400) // 3600} hours"
UptimeReadable(seconds) ==
    ToString(seconds \div 86400) \o " days, "
        \o ToString((seconds % 86400) \div 3600) \o " hours"

\* a value in hundredths rendered as Python renders the rounded float
Hundredths(n) ==
    LET a == IF n < 0 THEN 0 - n ELSE n
        frac == a % 100
    IN  (IF n < 0 THEN "-" ELSE "") \o ToString(a \div 100) \o "."
            \o (IF frac % 10 = 0 THEN ToString(frac \div 10)
                ELSE IF frac < 10 THEN "0" \o ToString(frac)
                ELSE ToString(frac))

(***************************************************************************)
(* RouterState.                                                            *)
(***************************************************************************)
\* a slip: the second device carries the first device's mac
InitialDevices_dup ==
    << [name |-> "iPhone 14", mac |-> "AA:BB:CC:DD:EE:01",
        ip |-> "192.168.1.101", connected_time |-> "2 hours",
        signal_strength |-> -45],
       [name |-> "MacBook Pro", mac |-> "AA:BB:CC:DD:EE:01",
        ip |-> "192.168.1.102", connected_time |-> "5 hours",
        signal_strength |-> -38],
       [name |-> "Smart TV", mac |-> "AA:BB:CC:DD:EE:03",
        ip |-> "192.168.1.103", connected_time |-> "5 days",
        signal_strength |-> -55] >>

InitialDevices ==
    << [name |-> "iPhone 14", mac |-> "AA:BB:CC:DD:EE:01",
        ip |-> "192.168.1.101", connected_time |-> "2 hours",
        signal_strength |-> -45],
       [name |-> "MacBook Pro", mac |-> "AA:BB:CC:DD:EE:02",
        ip |-> "192.168.1.102", connected_time |-> "5 hours",
        signal_strength |-> -38],
       [name |-> "Smart TV", mac |-> "AA:BB:CC:DD:EE:03",
        ip |-> "192.168.1.103", connected_time |-> "5 days",
        signal_strength |-> -55] >>

\* RouterState() of wifi_router_shared/router.py
SharedRouterState ==
    [ ssid |-> "XiaoYi_Home_WiFi",
      password |-> "secure_password_123",
      is_on |-> TRUE,
      frequency_band |-> "2.4GHz",
      channel |-> 6,
      max_devices |-> 32,
      security_mode |-> "WPA3",
      guest_network_enabled |-> FALSE,
      guest_ssid |-> "XiaoYi_Guest",
      guest_password |-> "guest123",
      firmware_version |-> "v2.1.4",
      uptime_seconds |-> 432000,
      connected_devices |-> InitialDevices,
      available_networks |->
        << [ssid |-> "XiaoYi_Home_WiFi", signal_strength |-> -30,
            security |-> "WPA3", frequency |-> "2.4GHz", channel |-> 6],
           [ssid |-> "Neighbor_WiFi", signal_strength |-> -65,
            security |-> "WPA2", frequency |-> "2.4GHz", channel |-> 11],
           [ssid |-> "CoffeeShop_Free", signal_strength |-> -70,
            security |-> "Open", frequency |-> "2.4GHz", channel |-> 1],
           [ssid |-> "Office_Network", signal_strength |-> -80,
            security |-> "WPA2", frequency |-> "5GHz", channel |-> 36] >>,
      network_stats |->
        [ download_speed_mbps |-> 9550,
          upload_speed_mbps |-> 4820,
          latency_ms |-> 12,
          packet_loss_percent |-> 10,
          connected_devices |-> Len(InitialDevices) ],
      logs |->
        << Stamp("Router system started"),
           Stamp("Firmware updated to " \o "v2.1.4"),
           Stamp("Guest network disabled"),
           Stamp("Channel set to " \o ToString(6)),
           Stamp("Security mode set to " \o "WPA3") >> ]

\* RouterState() of wifi_router_mcp/server.py
McpRouterState ==
    [ ssid |-> "XiaoYi_Home_WiFi",
      password |-> "secure_password_123",
      is_on |-> TRUE,
      frequency_band |-> "2.4GHz",
      channel |-> 6,
      max_devices |-> 32,
      security_mode |-> "WPA3",
      guest_network_enabled |-> FALSE,
      guest_ssid |-> "XiaoYi_Guest",
      guest_password |-> "guest123",
      firmware_version |-> "v2.1.4",
      uptime_seconds |-> 432000,
      connected_devices |-> InitialDevices,
      available_networks |->
        << [ssid |-> "XiaoYi_Home_WiFi", signal_strength |-> -30,
            security |-> "WPA3", frequency |-> "2.4GHz", channel |-> 6],
           [ssid |-> "Neighbor_WiFi", signal_strength |-> -70,
            security |-> "WPA2", frequency |-> "2.4GHz", channel |-> 11],
           [ssid |-> "CoffeeShop_Public", signal_strength |-> -85,
            security |-> "Open", frequency |-> "5GHz", channel |-> 36] >>,
      network_stats |->
        [ download_speed_mbps |-> 9530,
          upload_speed_mbps |-> 4210,
          latency_ms |-> 12,
          packets_sent |-> 15430982,
          packets_received |-> 18923451,
          bytes_sent |-> "234.5 GB",
          bytes_received |-> "1.2 TB" ],
      logs |->
        << "[2026-01-16 02:15:33] Device connected: iPhone 14 (192.168.1.101)",
           "[2026-01-16 01:45:22] Firmware update check: Up to date",
           "[2026-01-16 00:30:11] Device disconnected: iPad (192.168.1.105)",
           "[2026-01-15 23:12:45] Channel optimization: Switched to channel 6",
           "[2026-01-15 22:00:00] Daily backup completed" >> ]

(***************************************************************************)
(* What a function hands back: a returned value or a raised exception,     *)
(* with the RouterState it leaves behind.                                  *)
(***************************************************************************)
Return(rs, value) == [state |-> rs, outcome |-> "return", result |-> value]

Raise(rs, exception, message) ==
    [state |-> rs, outcome |-> "raise",
     result |-> [exception |-> exception, message |-> message]]

(***************************************************************************)
(* wifi_router_shared/router.py, call_tool_data: one operator per branch.  *)
(* args is `arguments or {}`.  rnd holds the draws of random.uniform(-5,5) *)
(* and random.uniform(-3,3), in hundredths after round(.., 2), and of      *)
(* random.randint(-2,2) and random.randint(1,5).                           *)
(***************************************************************************)
\* call_tool_data lines "scan_networks"
\* a slip: the scan answers with a status of its own
call_tool_data_scan_networks_ok(rs) ==
    Return(rs, [status |-> "ok",
                networks_found |-> Len(rs.available_networks),
                networks |-> rs.available_networks,
                timestamp |-> "ts"])

call_tool_data_scan_networks(rs) ==
    Return(rs, [status |-> "success",
                networks_found |-> Len(rs.available_networks),
                networks |-> rs.available_networks,
                timestamp |-> "ts"])

\* a slip: asking for the status writes a log entry
call_tool_data_get_router_status_logged(rs) ==
    Return([rs EXCEPT !.logs = Insert0(@, Stamp("Status requested"))],
           [status |-> "online",
            ssid |-> rs.ssid,
            is_on |-> rs.is_on,
            frequency_band |-> rs.frequency_band,
            channel |-> rs.channel,
            security_mode |-> rs.security_mode,
            connected_devices |-> Len(rs.connected_devices),
            firmware_version |-> rs.firmware_version,
            uptime |-> UptimeReadable(rs.uptime_seconds),
            guest_network |-> IF rs.guest_network_enabled
                              THEN "enabled" ELSE "disabled"])

call_tool_data_get_router_status(rs) ==
    Return(rs, [status |-> "online",
                ssid |-> rs.ssid,
                is_on |-> rs.is_on,
                frequency_band |-> rs.frequency_band,
                channel |-> rs.channel,
                security_mode |-> rs.security_mode,
                connected_devices |-> Len(rs.connected_devices),
                firmware_version |-> rs.firmware_version,
                uptime |-> UptimeReadable(rs.uptime_seconds),
                guest_network |-> IF rs.guest_network_enabled
                                  THEN "enabled" ELSE "disabled"])

\* a slip: args.get("confirm", True)
\* a slip: a reboot leaves the router switched off
\* a slip: the uptime is reset before the confirmation is looked at
call_tool_data_reboot_router_eager(rs, args) ==
    IF Get(args, "confirm", FALSE)
    THEN Return([rs EXCEPT !.uptime_seconds = 0,
                           !.logs = Insert0(@, Stamp("Router rebooted"))],
                [status |-> "success",
                 message |-> "Router is rebooting. This will take approximately 2 minutes.",
                 timestamp |-> "ts"])
    ELSE Return([rs EXCEPT !.uptime_seconds = 0],
                [status |-> "cancelled",
                 message |-> "Reboot cancelled. Set confirm=true to proceed."])

call_tool_data_reboot_router_off(rs, args) ==
    IF Get(args, "confirm", FALSE)
    THEN Return([rs EXCEPT !.uptime_seconds = 0,
                           !.is_on = FALSE,
                           !.logs = Insert0(@, Stamp("Router rebooted"))],
                [status |-> "success",
                 message |-> "Router is rebooting. This will take approximately 2 minutes.",
                 timestamp |-> "ts"])
    ELSE Return(rs, [status |-> "cancelled",
                     message |-> "Reboot cancelled. Set confirm=true to proceed."])

call_tool_data_reboot_router_default(rs, args) ==
    IF Get(args, "confirm", TRUE)
    THEN Return([rs EXCEPT !.uptime_seconds = 0,
                           !.logs = Insert0(@, Stamp("Router rebooted"))],
                [status |-> "success",
                 message |-> "Router is rebooting. This will take approximately 2 minutes.",
                 timestamp |-> "ts"])
    ELSE Return(rs, [status |-> "cancelled",
                     message |-> "Reboot cancelled. Set confirm=true to proceed."])

call_tool_data_reboot_router(rs, args) ==
    IF Get(args, "confirm", FALSE)
    THEN Return([rs EXCEPT !.uptime_seconds = 0,
                           !.logs = Insert0(@, Stamp("Router rebooted"))],
                [status |-> "success",
                 message |-> "Router is rebooting. This will take approximately 2 minutes.",
                 timestamp |-> "ts"])
    ELSE Return(rs, [status |-> "cancelled",
                     message |-> "Reboot cancelled. Set confirm=true to proceed."])

\* a slip: len(new_password) <= 8
\* a slip: the minimum length is taken to be 6
call_tool_data_change_wifi_password_six(rs, args) ==
    LET new_password == Get(args, "new_password", "") IN
    IF Len(new_password) < 6
    THEN Return(rs, [status |-> "error",
                     message |-> "Password must be at least 8 characters long"])
    ELSE Return([rs EXCEPT !.password = new_password,
                           !.logs = Insert0(@, Stamp("WiFi password changed"))],
                [status |-> "success",
                 message |-> "WiFi password updated successfully. All devices will need to reconnect.",
                 new_password_length |-> Len(new_password)])

call_tool_data_change_wifi_password_le(rs, args) ==
    LET new_password == Get(args, "new_password", "") IN
    IF Len(new_password) <= 8
    THEN Return(rs, [status |-> "error",
                     message |-> "Password must be at least 8 characters long"])
    ELSE Return([rs EXCEPT !.password = new_password,
                           !.logs = Insert0(@, Stamp("WiFi password changed"))],
                [status |-> "success",
                 message |-> "WiFi password updated successfully. All devices will need to reconnect.",
                 new_password_length |-> Len(new_password)])

call_tool_data_change_wifi_password(rs, args) ==
    LET new_password == Get(args, "new_password", "") IN
    IF Len(new_password) < 8
    THEN Return(rs, [status |-> "error",
                     message |-> "Password must be at least 8 characters long"])
    ELSE Return([rs EXCEPT !.password = new_password,
                           !.logs = Insert0(@, Stamp("WiFi password changed"))],
                [status |-> "success",
                 message |-> "WiFi password updated successfully. All devices will need to reconnect.",
                 new_password_length |-> Len(new_password)])

\* a slip: router_state.ssid is assigned before new_ssid is validated
call_tool_data_change_ssid_early(rs, args) ==
    LET new_ssid == Get(args, "new_ssid", "")
        old_ssid == rs.ssid
    IN
    IF new_ssid = ""
    THEN Return([rs EXCEPT !.ssid = new_ssid],
                [status |-> "error", message |-> "SSID cannot be empty"])
    ELSE Return([rs EXCEPT !.ssid = new_ssid,
                           !.logs = Insert0(@, Stamp("SSID changed from '" \o old_ssid
                                                     \o "' to '" \o new_ssid \o "'"))],
                [status |-> "success",
                 message |-> "SSID changed from '" \o old_ssid \o "' to '" \o new_ssid
                             \o "'. All devices will need to reconnect.",
                 new_ssid |-> new_ssid])

call_tool_data_change_ssid(rs, args) ==
    LET new_ssid == Get(args, "new_ssid", "")
        old_ssid == rs.ssid
    IN
    IF new_ssid = ""
    THEN Return(rs, [status |-> "error", message |-> "SSID cannot be empty"])
    ELSE Return([rs EXCEPT !.ssid = new_ssid,
                           !.logs = Insert0(@, Stamp("SSID changed from '" \o old_ssid
                                                     \o "' to '" \o new_ssid \o "'"))],
                [status |-> "success",
                 message |-> "SSID changed from '" \o old_ssid \o "' to '" \o new_ssid
                             \o "'. All devices will need to reconnect.",
                 new_ssid |-> new_ssid])

\* a slip: the log line of an enabled guest network shows its password
\* a slip: the supplied guest SSID and password are stored when disabling too
call_tool_data_enable_guest_network_always(rs, args) ==
    LET enabled == Get(args, "enabled", FALSE)
        rs1 == [rs EXCEPT !.guest_network_enabled = enabled]
        rs2 == IF Get(args, "guest_ssid", "") # ""
               THEN [rs1 EXCEPT !.guest_ssid = args["guest_ssid"]] ELSE rs1
        rs3 == IF Get(args, "guest_password", "") # ""
               THEN [rs2 EXCEPT !.guest_password = args["guest_password"]] ELSE rs2
    IN
    IF enabled
    THEN Return([rs3 EXCEPT !.logs = Insert0(@, Stamp("Guest network enabled: "
                                                      \o rs3.guest_ssid))],
                [status |-> "success",
                 message |-> "Guest network enabled",
                 guest_ssid |-> rs3.guest_ssid,
                 guest_password_set |-> TRUE,
                 note |-> "Password has been set but is not displayed for security. Check router configuration to view masked password."])
    ELSE Return([rs3 EXCEPT !.logs = Insert0(@, Stamp("Guest network disabled"))],
                [status |-> "success", message |-> "Guest network disabled"])

call_tool_data_enable_guest_network_logpw(rs, args) ==
    LET enabled == Get(args, "enabled", FALSE)
        rs1 == [rs EXCEPT !.guest_network_enabled = enabled]
        rs2 == IF Get(args, "guest_ssid", "") # ""
               THEN [rs1 EXCEPT !.guest_ssid = args["guest_ssid"]] ELSE rs1
        rs3 == IF Get(args, "guest_password", "") # ""
               THEN [rs2 EXCEPT !.guest_password = args["guest_password"]] ELSE rs2
    IN
    IF enabled
    THEN Return([rs3 EXCEPT !.logs = Insert0(@, Stamp("Guest network enabled: "
                                                      \o rs3.guest_ssid \o " / "
                                                      \o rs3.guest_password))],
                [status |-> "success",
                 message |-> "Guest network enabled",
                 guest_ssid |-> rs3.guest_ssid,
                 guest_password_set |-> TRUE,
                 note |-> "Password has been set but is not displayed for security. Check router configuration to view masked password."])
    ELSE Return([rs1 EXCEPT !.logs = Insert0(@, Stamp("Guest network disabled"))],
                [status |-> "success", message |-> "Guest network disabled"])

call_tool_data_enable_guest_network(rs, args) ==
    LET enabled == Get(args, "enabled", FALSE)
        rs1 == [rs EXCEPT !.guest_network_enabled = enabled]
        rs2 == IF Get(args, "guest_ssid", "") # ""
               THEN [rs1 EXCEPT !.guest_ssid = args["guest_ssid"]] ELSE rs1
        rs3 == IF Get(args, "guest_password", "") # ""
               THEN [rs2 EXCEPT !.guest_password = args["guest_password"]] ELSE rs2
    IN
    IF enabled
    THEN Return([rs3 EXCEPT !.logs = Insert0(@, Stamp("Guest network enabled: "
                                                      \o rs3.guest_ssid))],
                [status |-> "success",
                 message |-> "Guest network enabled",
                 guest_ssid |-> rs3.guest_ssid,
                 guest_password_set |-> TRUE,
                 note |-> "Password has been set but is not displayed for security. Check router configuration to view masked password."])
    ELSE Return([rs1 EXCEPT !.logs = Insert0(@, Stamp("Guest network disabled"))],
                [status |-> "success", message |-> "Guest network disabled"])

\* a slip: the remaining devices are stored newest first
call_tool_data_disconnect_device_reversed(rs, args) ==
    LET mac_address == Get(args, "mac_address", "")
        i == FirstWithMac(rs.connected_devices, mac_address)
    IN
    IF i # 0
    THEN LET device == rs.connected_devices[i]
             rest == ListRemove(rs.connected_devices, device)
         IN
         Return([rs EXCEPT !.connected_devices =
                                [k \in 1..Len(rest) |-> rest[Len(rest) + 1 - k]],
                           !.logs = Insert0(@, Stamp("Device disconnected: " \o device.name
                                                     \o " (" \o mac_address \o ")"))],
                [status |-> "success",
                 message |-> "Device '" \o device.name \o "' disconnected successfully",
                 device |-> device])
    ELSE Return(rs, [status |-> "error",
                     message |-> "Device with MAC address " \o mac_address \o " not found"])

call_tool_data_disconnect_device(rs, args) ==
    LET mac_address == Get(args, "mac_address", "")
        i == FirstWithMac(rs.connected_devices, mac_address)
    IN
    IF i # 0
    THEN LET device == rs.connected_devices[i] IN
         Return([rs EXCEPT !.connected_devices = ListRemove(@, device),
                           !.logs = Insert0(@, Stamp("Device disconnected: " \o device.name
                                                     \o " (" \o mac_address \o ")"))],
                [status |-> "success",
                 message |-> "Device '" \o device.name \o "' disconnected successfully",
                 device |-> device])
    ELSE Return(rs, [status |-> "error",
                     message |-> "Device with MAC address " \o mac_address \o " not found"])

\* a slip: the channel is checked against the band (1-11 on 2.4GHz)
call_tool_data_change_channel_ranged(rs, args) ==
    LET channel == Get(args, "channel", 0)
        old_channel == rs.channel
    IN
    IF channel # 0 /\ (rs.frequency_band = "2.4GHz" => channel \in 1..11)
    THEN Return([rs EXCEPT !.channel = channel,
                           !.logs = Insert0(@, Stamp("Channel changed from "
                                                     \o ToString(old_channel) \o " to "
                                                     \o ToString(channel)))],
                [status |-> "success",
                 message |-> "Channel changed from " \o ToString(old_channel)
                             \o " to " \o ToString(channel),
                 new_channel |-> channel])
    ELSE Return(rs, [status |-> "error", message |-> "Channel number is required"])

call_tool_data_change_channel(rs, args) ==
    LET channel == Get(args, "channel", 0)
        old_channel == rs.channel
    IN
    IF channel # 0
    THEN Return([rs EXCEPT !.channel = channel,
                           !.logs = Insert0(@, Stamp("Channel changed from "
                                                     \o ToString(old_channel) \o " to "
                                                     \o ToString(channel)))],
                [status |-> "success",
                 message |-> "Channel changed from " \o ToString(old_channel)
                             \o " to " \o ToString(channel),
                 new_channel |-> channel])
    ELSE Return(rs, [status |-> "error", message |-> "Channel number is required"])

\* a slip: any band that is given is taken
call_tool_data_set_frequency_band_any(rs, args) ==
    LET old_band == rs.frequency_band IN
    IF "band" \in DOMAIN args
    THEN LET band == args["band"] IN
         Return([rs EXCEPT !.frequency_band = band,
                           !.logs = Insert0(@, Stamp("Frequency band changed from "
                                                     \o old_band \o " to " \o band))],
                [status |-> "success",
                 message |-> "Frequency band changed from " \o old_band \o " to " \o band,
                 new_band |-> band])
    ELSE Return(rs, [status |-> "error",
                     message |-> "Invalid band. Must be '2.4GHz', '5GHz', or 'dual'"])

call_tool_data_set_frequency_band(rs, args) ==
    LET old_band == rs.frequency_band IN
    IF "band" \in DOMAIN args /\ args["band"] \in {"2.4GHz", "5GHz", "dual"}
    THEN LET band == args["band"] IN
         Return([rs EXCEPT !.frequency_band = band,
                           !.logs = Insert0(@, Stamp("Frequency band changed from "
                                                     \o old_band \o " to " \o band))],
                [status |-> "success",
                 message |-> "Frequency band changed from " \o old_band \o " to " \o band,
                 new_band |-> band])
    ELSE Return(rs, [status |-> "error",
                     message |-> "Invalid band. Must be '2.4GHz', '5GHz', or 'dual'"])

\* a slip: the check is not logged
call_tool_data_check_firmware_update_nolog(rs) ==
    Return(rs,
           [status |-> "success",
            current_version |-> rs.firmware_version,
            latest_version |-> rs.firmware_version,
            update_available |-> FALSE,
            message |-> "Your router firmware is up to date",
            checked_at |-> "ts"])

call_tool_data_check_firmware_update(rs) ==
    Return([rs EXCEPT !.logs = Insert0(@, Stamp("Firmware update check: Up to date"))],
           [status |-> "success",
            current_version |-> rs.firmware_version,
            latest_version |-> rs.firmware_version,
            update_available |-> FALSE,
            message |-> "Your router firmware is up to date",
            checked_at |-> "ts"])

\* a slip: the measured values are stored as the new baseline
call_tool_data_run_speed_test_persist(rs, rnd) ==
    LET result == [status |-> "success",
                   download_mbps |-> rs.network_stats.download_speed_mbps + rnd.download,
                   upload_mbps |-> rs.network_stats.upload_speed_mbps + rnd.upload,
                   latency_ms |-> rs.network_stats.latency_ms + rnd.latency,
                   jitter_ms |-> rnd.jitter,
                   tested_at |-> "ts"]
    IN
    Return([rs EXCEPT !.network_stats.download_speed_mbps = result.download_mbps,
                      !.network_stats.upload_speed_mbps = result.upload_mbps,
                      !.network_stats.latency_ms = result.latency_ms,
                      !.logs = Insert0(@, Stamp("Speed test completed: "
                                                \o Hundredths(result.download_mbps)
                                                \o " Mbps down, "
                                                \o Hundredths(result.upload_mbps)
                                                \o " Mbps up"))],
           result)

call_tool_data_run_speed_test(rs, rnd) ==
    LET result == [status |-> "success",
                   download_mbps |-> rs.network_stats.download_speed_mbps + rnd.download,
                   upload_mbps |-> rs.network_stats.upload_speed_mbps + rnd.upload,
                   latency_ms |-> rs.network_stats.latency_ms + rnd.latency,
                   jitter_ms |-> rnd.jitter,
                   tested_at |-> "ts"]
    IN
    Return([rs EXCEPT !.logs = Insert0(@, Stamp("Speed test completed: "
                                                \o Hundredths(result.download_mbps)
                                                \o " Mbps down, "
                                                \o Hundredths(result.upload_mbps)
                                                \o " Mbps up"))],
           result)

call_tool_data(rs, name, arguments, rnd) ==
    LET args == IF arguments = None THEN EmptyDict ELSE arguments IN
    CASE name = "scan_networks" -> call_tool_data_scan_networks(rs)
      [] name = "get_router_status" -> call_tool_data_get_router_status(rs)
      [] name = "reboot_router" -> call_tool_data_reboot_router(rs, args)
      [] name = "change_wifi_password" -> call_tool_data_change_wifi_password(rs, args)
      [] name = "change_ssid" -> call_tool_data_change_ssid(rs, args)
      [] name = "enable_guest_network" -> call_tool_data_enable_guest_network(rs, args)
      [] name = "disconnect_device" -> call_tool_data_disconnect_device(rs, args)
      [] name = "change_channel" -> call_tool_data_change_channel(rs, args)
      [] name = "set_frequency_band" -> call_tool_data_set_frequency_band(rs, args)
      [] name = "check_firmware_update" -> call_tool_data_check_firmware_update(rs)
      [] name = "run_speed_test" -> call_tool_data_run_speed_test(rs, rnd)
      [] OTHER -> Raise(rs, "ValueError", "Unknown tool: " \o name)

(***************************************************************************)
(* wifi_router_mcp/server.py, call_tool: one operator per branch.  The     *)
(* branches call arguments.get directly, which raises AttributeError when  *)
(* arguments is None.  Every branch returns its result dict as one         *)
(* TextContent holding json.dumps(result, indent=2).                       *)
(***************************************************************************)
\* json.dumps(value, indent=2): the JSON text of value
json_dumps(value) == [json |-> value]

\* json.loads(text)
json_loads(text) == text.json

\* TextContent(type="text", text=text)
TextContent(text) == [type |-> "text", text |-> text]

call_tool_scan_networks(rs) ==
    Return(rs, [status |-> "success",
                networks_found |-> Len(rs.available_networks),
                networks |-> rs.available_networks,
                timestamp |-> "ts"])

call_tool_get_router_status(rs) ==
    Return(rs, [status |-> "online",
                ssid |-> rs.ssid,
                is_on |-> rs.is_on,
                frequency_band |-> rs.frequency_band,
                channel |-> rs.channel,
                security_mode |-> rs.security_mode,
                connected_devices |-> Len(rs.connected_devices),
                firmware_version |-> rs.firmware_version,
                uptime |-> UptimeReadable(rs.uptime_seconds),
                guest_network |-> IF rs.guest_network_enabled
                                  THEN "enabled" ELSE "disabled"])

call_tool_reboot_router(rs, arguments) ==
    IF arguments = None
    THEN Raise(rs, "AttributeError", "'NoneType' object has no attribute 'get'")
    ELSE
        IF Get(arguments, "confirm", FALSE)
        THEN Return([rs EXCEPT !.uptime_seconds = 0,
                               !.logs = Insert0(@, Stamp("Router rebooted"))],
                    [status |-> "success",
                     message |-> "Router is rebooting. This will take approximately 2 minutes.",
                     timestamp |-> "ts"])
        ELSE Return(rs, [status |-> "cancelled",
                         message |-> "Reboot cancelled. Set confirm=true to proceed."])

call_tool_change_wifi_password(rs, arguments) ==
    IF arguments = None
    THEN Raise(rs, "AttributeError", "'NoneType' object has no attribute 'get'")
    ELSE
        LET new_password == Get(arguments, "new_password", "") IN
        IF Len(new_password) < 8
        THEN Return(rs, [status |-> "error",
                         message |-> "Password must be at least 8 characters long"])
        ELSE Return([rs EXCEPT !.password = new_password,
                               !.logs = Insert0(@, Stamp("WiFi password changed"))],
                    [status |-> "success",
                     message |-> "WiFi password updated successfully. All devices will need to reconnect.",
                     new_password_length |-> Len(new_password)])

call_tool_change_ssid(rs, arguments) ==
    IF arguments = None
    THEN Raise(rs, "AttributeError", "'NoneType' object has no attribute 'get'")
    ELSE
        LET new_ssid == Get(arguments, "new_ssid", "")
            old_ssid == rs.ssid
        IN
        IF new_ssid = ""
        THEN Return(rs, [status |-> "error", message |-> "SSID cannot be empty"])
        ELSE Return([rs EXCEPT !.ssid = new_ssid,
                               !.logs = Insert0(@, Stamp("SSID changed from '" \o old_ssid
                                                         \o "' to '" \o new_ssid \o "'"))],
                    [status |-> "success",
                     message |-> "SSID changed from '" \o old_ssid \o "' to '" \o new_ssid
                                 \o "'. All devices will need to reconnect.",
                     new_ssid |-> new_ssid])

call_tool_enable_guest_network(rs, arguments) ==
    IF arguments = None
    THEN Raise(rs, "AttributeError", "'NoneType' object has no attribute 'get'")
    ELSE
        LET enabled == Get(arguments, "enabled", FALSE)
            rs1 == [rs EXCEPT !.guest_network_enabled = enabled]
            rs2 == IF Get(arguments, "guest_ssid", "") # ""
                   THEN [rs1 EXCEPT !.guest_ssid = arguments["guest_ssid"]] ELSE rs1
            rs3 == IF Get(arguments, "guest_password", "") # ""
                   THEN [rs2 EXCEPT !.guest_password = arguments["guest_password"]] ELSE rs2
        IN
        IF enabled
        THEN Return([rs3 EXCEPT !.logs = Insert0(@, Stamp("Guest network enabled: "
                                                          \o rs3.guest_ssid))],
                    [status |-> "success",
                     message |-> "Guest network enabled",
                     guest_ssid |-> rs3.guest_ssid,
                     guest_password_set |-> TRUE,
                     note |-> "Password has been set but is not displayed for security. Check router configuration to view masked password."])
        ELSE Return([rs1 EXCEPT !.logs = Insert0(@, Stamp("Guest network disabled"))],
                    [status |-> "success", message |-> "Guest network disabled"])

call_tool_disconnect_device(rs, arguments) ==
    IF arguments = None
    THEN Raise(rs, "AttributeError", "'NoneType' object has no attribute 'get'")
    ELSE
        LET mac_address == Get(arguments, "mac_address", "")
            i == FirstWithMac(rs.connected_devices, mac_address)
        IN
        IF i # 0
        THEN LET device == rs.connected_devices[i] IN
             Return([rs EXCEPT !.connected_devices = ListRemove(@, device),
                               !.logs = Insert0(@, Stamp("Device disconnected: " \o device.name
                                                         \o " (" \o mac_address \o ")"))],
                    [status |-> "success",
                     message |-> "Device '" \o device.name \o "' disconnected successfully",
                     device |-> device])
        ELSE Return(rs, [status |-> "error",
                         message |-> "Device with MAC address " \o mac_address \o " not found"])

call_tool_change_channel(rs, arguments) ==
    IF arguments = None
    THEN Raise(rs, "AttributeError", "'NoneType' object has no attribute 'get'")
    ELSE
        LET channel == Get(arguments, "channel", 0)
            old_channel == rs.channel
        IN
        IF channel # 0
        THEN Return([rs EXCEPT !.channel = channel,
                               !.logs = Insert0(@, Stamp("Channel changed from "
                                                         \o ToString(old_channel) \o " to "
                                                         \o ToString(channel)))],
                    [status |-> "success",
                     message |-> "Channel changed from " \o ToString(old_channel)
                                 \o " to " \o ToString(channel),
                     new_channel |-> channel])
        ELSE Return(rs, [status |-> "error", message |-> "Channel number is required"])

\* a slip: 'dual' is missing from the accepted bands
call_tool_set_frequency_band_nodual(rs, arguments) ==
    IF arguments = None
    THEN Raise(rs, "AttributeError", "'NoneType' object has no attribute 'get'")
    ELSE
        LET old_band == rs.frequency_band IN
        IF "band" \in DOMAIN arguments /\ arguments["band"] \in {"2.4GHz", "5GHz"}
        THEN LET band == arguments["band"] IN
             Return([rs EXCEPT !.frequency_band = band,
                               !.logs = Insert0(@, Stamp("Frequency band changed from "
                                                         \o old_band \o " to " \o band))],
                    [status |-> "success",
                     message |-> "Frequency band changed from " \o old_band \o " to " \o band,
                     new_band |-> band])
        ELSE Return(rs, [status |-> "error",
                         message |-> "Invalid band. Must be '2.4GHz', '5GHz', or 'dual'"])

call_tool_set_frequency_band(rs, arguments) ==
    IF arguments = None
    THEN Raise(rs, "AttributeError", "'NoneType' object has no attribute 'get'")
    ELSE
        LET old_band == rs.frequency_band IN
        IF "band" \in DOMAIN arguments /\ arguments["band"] \in {"2.4GHz", "5GHz", "dual"}
        THEN LET band == arguments["band"] IN
             Return([rs EXCEPT !.frequency_band = band,
                               !.logs = Insert0(@, Stamp("Frequency band changed from "
                                                         \o old_band \o " to " \o band))],
                    [status |-> "success",
                     message |-> "Frequency band changed from " \o old_band \o " to " \o band,
                     new_band |-> band])
        ELSE Return(rs, [status |-> "error",
                         message |-> "Invalid band. Must be '2.4GHz', '5GHz', or 'dual'"])

call_tool_check_firmware_update(rs) ==
    Return([rs EXCEPT !.logs = Insert0(@, Stamp("Firmware update check: Up to date"))],
           [status |-> "success",
            current_version |-> rs.firmware_version,
            latest_version |-> rs.firmware_version,
            update_available |-> FALSE,
            message |-> "Your router firmware is up to date",
            checked_at |-> "ts"])

call_tool_run_speed_test(rs, rnd) ==
    LET result == [status |-> "success",
                   download_mbps |-> rs.network_stats.download_speed_mbps + rnd.download,
                   upload_mbps |-> rs.network_stats.upload_speed_mbps + rnd.upload,
                   latency_ms |-> rs.network_stats.latency_ms + rnd.latency,
                   jitter_ms |-> rnd.jitter,
                   tested_at |-> "ts"]
    IN
    Return([rs EXCEPT !.logs = Insert0(@, Stamp("Speed test completed: "
                                                \o Hundredths(result.download_mbps)
                                                \o " Mbps down, "
                                                \o Hundredths(result.upload_mbps)
                                                \o " Mbps up"))],
           result)

call_tool(rs, name, arguments, rnd) ==
    LET out ==
        CASE name = "scan_networks" -> call_tool_scan_networks(rs)
          [] name = "get_router_status" -> call_tool_get_router_status(rs)
          [] name = "reboot_router" -> call_tool_reboot_router(rs, arguments)
          [] name = "change_wifi_password" -> call_tool_change_wifi_password(rs, arguments)
          [] name = "change_ssid" -> call_tool_change_ssid(rs, arguments)
          [] name = "enable_guest_network" -> call_tool_enable_guest_network(rs, arguments)
          [] name = "disconnect_device" -> call_tool_disconnect_device(rs, arguments)
          [] name = "change_channel" -> call_tool_change_channel(rs, arguments)
          [] name = "set_frequency_band" -> call_tool_set_frequency_band(rs, arguments)
          [] name = "check_firmware_update" -> call_tool_check_firmware_update(rs)
          [] name = "run_speed_test" -> call_tool_run_speed_test(rs, rnd)
          [] OTHER -> Raise(rs, "ValueError", "Unknown tool: " \o name)
    IN  IF out.outcome = "return"
        THEN Return(out.state, <<TextContent(json_dumps(out.result))>>)
        ELSE out

(***************************************************************************)
(* Python string helpers.                                                  *)
(***************************************************************************)
\* a value that may be None: None itself is Null, any other value v is Some(v)
Null == <<>>

Some(v) == <<v>>

\* sep.join(list)
RECURSIVE Join(_, _)
Join(list, sep) ==
    IF Len(list) = 0 THEN ""
    ELSE IF Len(list) = 1 THEN list[1]
    ELSE list[1] \o sep \o Join(Tail(list), sep)

\* one character of str.lower()
LowerChar(c) ==
    CASE c = "A" -> "a" [] c = "B" -> "b" [] c = "C" -> "c" [] c = "D" -> "d"
      [] c = "E" -> "e" [] c = "F" -> "f" [] c = "G" -> "g" [] c = "H" -> "h"
      [] c = "I" -> "i" [] c = "J" -> "j" [] c = "K" -> "k" [] c = "L" -> "l"
      [] c = "M" -> "m" [] c = "N" -> "n" [] c = "O" -> "o" [] c = "P" -> "p"
      [] c = "Q" -> "q" [] c = "R" -> "r" [] c = "S" -> "s" [] c = "T" -> "t"
      [] c = "U" -> "u" [] c = "V" -> "v" [] c = "W" -> "w" [] c = "X" -> "x"
      [] c = "Y" -> "y" [] c = "Z" -> "z" [] OTHER -> c

\* s.lower()
RECURSIVE Lower(_)
Lower(s) ==
    IF Len(s) = 0 THEN ""
    ELSE LowerChar(SubSeq(s, 1, 1)) \o Lower(SubSeq(s, 2, Len(s)))

\* t in s, for strings
Contains(s, t) ==
    \E i \in 1..(Len(s) - Len(t) + 1) : SubSeq(s, i, i + Len(t) - 1) = t

\* s.replace(a, b) for a single character a
RECURSIVE Replace(_, _, _)
Replace(s, a, b) ==
    IF Len(s) = 0 THEN ""
    ELSE (IF SubSeq(s, 1, 1) = a THEN b ELSE SubSeq(s, 1, 1))
            \o Replace(SubSeq(s, 2, Len(s)), a, b)

(***************************************************************************)
(* wifi_router_shared/router.py, read_resource_data.                       *)
(***************************************************************************)
\* a slip: the stored password is shown
\* a slip: the guest SSID is shown whether or not the guest network is on
read_resource_data_config_guest(rs) ==
    [ ssid |-> rs.ssid,
      password |-> "********",
      is_on |-> rs.is_on,
      frequency_band |-> rs.frequency_band,
      channel |-> rs.channel,
      security_mode |-> rs.security_mode,
      guest_network_enabled |-> rs.guest_network_enabled,
      guest_ssid |-> Some(rs.guest_ssid),
      guest_password |-> IF rs.guest_network_enabled THEN Some("********") ELSE Null,
      firmware_version |-> rs.firmware_version,
      uptime_seconds |-> rs.uptime_seconds,
      uptime_readable |-> UptimeReadable(rs.uptime_seconds) ]

read_resource_data_config_plain(rs) ==
    [ ssid |-> rs.ssid,
      password |-> rs.password,
      is_on |-> rs.is_on,
      frequency_band |-> rs.frequency_band,
      channel |-> rs.channel,
      security_mode |-> rs.security_mode,
      guest_network_enabled |-> rs.guest_network_enabled,
      guest_ssid |-> IF rs.guest_network_enabled THEN Some(rs.guest_ssid) ELSE Null,
      guest_password |-> IF rs.guest_network_enabled THEN Some("********") ELSE Null,
      firmware_version |-> rs.firmware_version,
      uptime_seconds |-> rs.uptime_seconds,
      uptime_readable |-> UptimeReadable(rs.uptime_seconds) ]

\* the "router://config" branch
read_resource_data_config(rs) ==
    [ ssid |-> rs.ssid,
      password |-> "********",
      is_on |-> rs.is_on,
      frequency_band |-> rs.frequency_band,
      channel |-> rs.channel,
      security_mode |-> rs.security_mode,
      guest_network_enabled |-> rs.guest_network_enabled,
      guest_ssid |-> IF rs.guest_network_enabled THEN Some(rs.guest_ssid) ELSE Null,
      guest_password |-> IF rs.guest_network_enabled THEN Some("********") ELSE Null,
      firmware_version |-> rs.firmware_version,
      uptime_seconds |-> rs.uptime_seconds,
      uptime_readable |-> UptimeReadable(rs.uptime_seconds) ]

\* a slip: the URI is matched without regard to case
read_resource_data_nocase(rs, uri) ==
    LET uri_str == Lower(uri) IN
    CASE uri_str = "router://devices" ->
        Return(rs, [connected_devices |-> rs.connected_devices,
                    total_devices |-> Len(rs.connected_devices),
                    max_devices |-> rs.max_devices])
      [] uri_str = "router://stats" -> Return(rs, rs.network_stats)
      [] uri_str = "router://config" -> Return(rs, read_resource_data_config(rs))
      [] uri_str = "router://logs" -> Return(rs, Join(rs.logs, "\n"))
      [] uri_str = "router://networks" ->
        Return(rs, [available_networks |-> rs.available_networks,
                    total_networks |-> Len(rs.available_networks)])
      [] OTHER -> Raise(rs, "ValueError", "Unknown resource URI: " \o uri_str)

\* str(uri) is uri for a str
read_resource_data(rs, uri) ==
    LET uri_str == uri IN
    CASE uri_str = "router://devices" ->
        Return(rs, [connected_devices |-> rs.connected_devices,
                    total_devices |-> Len(rs.connected_devices),
                    max_devices |-> rs.max_devices])
      [] uri_str = "router://stats" -> Return(rs, rs.network_stats)
      [] uri_str = "router://config" -> Return(rs, read_resource_data_config(rs))
      [] uri_str = "router://logs" -> Return(rs, Join(rs.logs, "\n"))
      [] uri_str = "router://networks" ->
        Return(rs, [available_networks |-> rs.available_networks,
                    total_networks |-> Len(rs.available_networks)])
      [] OTHER -> Raise(rs, "ValueError", "Unknown resource URI: " \o uri_str)

(***************************************************************************)
(* wifi_router_mcp/server.py, read_resource: the same projections, each    *)
(* JSON one returned as json.dumps(.., indent=2).                          *)
(***************************************************************************)
\* the "router://config" branch, before json.dumps
read_resource_config(rs) ==
    [ ssid |-> rs.ssid,
      password |-> "********",
      is_on |-> rs.is_on,
      frequency_band |-> rs.frequency_band,
      channel |-> rs.channel,
      security_mode |-> rs.security_mode,
      guest_network_enabled |-> rs.guest_network_enabled,
      guest_ssid |-> IF rs.guest_network_enabled THEN Some(rs.guest_ssid) ELSE Null,
      guest_password |-> IF rs.guest_network_enabled THEN Some("********") ELSE Null,
      firmware_version |-> rs.firmware_version,
      uptime_seconds |-> rs.uptime_seconds,
      uptime_readable |-> UptimeReadable(rs.uptime_seconds) ]

read_resource(rs, uri) ==
    LET uri_str == uri IN
    CASE uri_str = "router://devices" ->
        Return(rs, json_dumps([connected_devices |-> rs.connected_devices,
                               total_devices |-> Len(rs.connected_devices),
                               max_devices |-> rs.max_devices]))
      [] uri_str = "router://stats" -> Return(rs, json_dumps(rs.network_stats))
      [] uri_str = "router://config" -> Return(rs, json_dumps(read_resource_config(rs)))
      [] uri_str = "router://logs" -> Return(rs, Join(rs.logs, "\n"))
      [] uri_str = "router://networks" ->
        Return(rs, json_dumps([available_networks |-> rs.available_networks,
                               total_networks |-> Len(rs.available_networks)]))
      [] OTHER -> Raise(rs, "ValueError", "Unknown resource URI: " \o uri_str)

(***************************************************************************)
(* wifi_router_shared/router.py, get_prompt_data.  The message text is     *)
(* held as its lines; of the lines without a placeholder only each         *)
(* template's title is kept.                                               *)
(***************************************************************************)
\* the {description, messages} value handed back by every builder
get_prompt_data_result(description, lines) ==
    [ description |-> description,
      messages |-> << [ role |-> "user",
                        content |-> [type |-> "text", text |-> lines] ] >> ]

\* the "slow_speed" template, formatted
get_prompt_data_slow_speed(rs) ==
    << "## Troubleshooting Slow WiFi Speed",
       "- SSID: " \o rs.ssid,
       "- Channel: " \o ToString(rs.channel),
       "- Frequency: " \o rs.frequency_band,
       "- Connected devices: " \o ToString(Len(rs.connected_devices)),
       "1. Check if too many devices are connected (current: "
            \o ToString(Len(rs.connected_devices)) \o ")" >>

\* the "intermittent" template, formatted
get_prompt_data_intermittent(rs) ==
    << "## Troubleshooting Intermittent Connection",
       "- Channel: " \o ToString(rs.channel),
       "- Frequency: " \o rs.frequency_band,
       "- Uptime: " \o ToString(rs.uptime_seconds \div 86400) \o " days",
       "5. Check if router needs a reboot (high uptime: "
            \o ToString(rs.uptime_seconds \div 86400) \o " days)" >>

\* the "no_connection" template, formatted
get_prompt_data_no_connection(rs) ==
    << "## Troubleshooting No Connection",
       "- Router is: " \o (IF rs.is_on THEN "ON" ELSE "OFF"),
       "- SSID: " \o rs.ssid,
       "- Security: " \o rs.security_mode >>


\* the "device_cant_connect" template, formatted
get_prompt_data_device_cant_connect(rs) ==
    << "## Troubleshooting Device Connection Issues",
       "- Connected devices: " \o ToString(Len(rs.connected_devices)) \o "/"
            \o ToString(rs.max_devices),
       "- Security mode: " \o rs.security_mode,
       "- Guest network: " \o (IF rs.guest_network_enabled THEN "enabled" ELSE "disabled"),
       "1. Check if device limit is reached (current: "
            \o ToString(Len(rs.connected_devices)) \o "/" \o ToString(rs.max_devices) \o ")" >>

get_prompt_data_troubleshoot_connection(rs, arguments) ==
    LET issue_type == IF arguments = None \/ arguments = EmptyDict
                      THEN "no_connection"
                      ELSE Get(arguments, "issue_type", "no_connection")
        template == IF issue_type \in {"slow_speed", "no_connection", "intermittent",
                                       "device_cant_connect"}
                    THEN issue_type ELSE "no_connection"
        description == "Troubleshooting guide for " \o Replace(issue_type, "_", " ")
    IN
    CASE template = "slow_speed" -> Return(rs, get_prompt_data_result(description, get_prompt_data_slow_speed(rs)))
      [] template = "intermittent" -> Return(rs, get_prompt_data_result(description, get_prompt_data_intermittent(rs)))
      [] template = "no_connection" -> Return(rs, get_prompt_data_result(description, get_prompt_data_no_connection(rs)))
      [] template = "device_cant_connect" -> Return(rs, get_prompt_data_result(description, get_prompt_data_device_cant_connect(rs)))

get_prompt_data_setup_guest_network(rs) ==
    Return(rs, get_prompt_data_result("Guide for setting up guest network",
        << "## Setting Up Guest WiFi Network",
           "- Main SSID: " \o rs.ssid,
           "- Guest Network: " \o (IF rs.guest_network_enabled THEN "Enabled" ELSE "Disabled"),
           "- Guest SSID: " \o (IF rs.guest_network_enabled THEN rs.guest_ssid ELSE "Not set"),
           "1. Choose a guest network name (SSID) - something like \"" \o rs.ssid \o "_Guest\"",
           "    guest_ssid=\"" \o rs.guest_ssid \o "\"," >>))

get_prompt_data_optimize_performance(rs) ==
    Return(rs, get_prompt_data_result("Router performance optimization guide",
        << "## Router Performance Optimization Guide",
           "- Frequency Band: " \o rs.frequency_band,
           "- Channel: " \o ToString(rs.channel),
           "- Connected Devices: " \o ToString(Len(rs.connected_devices)),
           "- Security Mode: " \o rs.security_mode,
           "Current: " \o rs.frequency_band,
           "Current channel: " \o ToString(rs.channel),
           "- Monitor device count: Currently " \o ToString(Len(rs.connected_devices))
                \o " devices",
           "- Reboot periodically if uptime is high (current: "
                \o ToString(rs.uptime_seconds \div 86400) \o " days)" >>))

\* security_score after the four checks
\* a slip: the bonus for a distinct guest password is given with the guest network off
get_prompt_data_security_score_guest(rs) ==
    (IF rs.security_mode = "WPA3" THEN 30
     ELSE IF rs.security_mode = "WPA2" THEN 20 ELSE 5)
    + (IF Len(rs.password) >= 16 THEN 25
       ELSE IF Len(rs.password) >= 12 THEN 20
       ELSE IF Len(rs.password) >= 8 THEN 10 ELSE 0)
    + (IF Contains(Lower(rs.ssid), "default") \/ Contains(Lower(rs.ssid), "admin")
       THEN 0 ELSE 15)
    + (IF rs.guest_network_enabled THEN 15 ELSE 0)
    + (IF rs.guest_password # rs.password THEN 15 ELSE 0)

get_prompt_data_security_score(rs) ==
    (IF rs.security_mode = "WPA3" THEN 30
     ELSE IF rs.security_mode = "WPA2" THEN 20 ELSE 5)
    + (IF Len(rs.password) >= 16 THEN 25
       ELSE IF Len(rs.password) >= 12 THEN 20
       ELSE IF Len(rs.password) >= 8 THEN 10 ELSE 0)
    + (IF Contains(Lower(rs.ssid), "default") \/ Contains(Lower(rs.ssid), "admin")
       THEN 0 ELSE 15)
    + (IF rs.guest_network_enabled
       THEN 15 + (IF rs.guest_password # rs.password THEN 15 ELSE 0)
       ELSE 0)

\* recommendations, in the order the checks append them (the warning sign
\* before CRITICAL and the backquotes of the last entry are left out)
get_prompt_data_recommendations(rs) ==
    (IF rs.security_mode = "WPA3" THEN <<>>
     ELSE IF rs.security_mode = "WPA2"
          THEN << "Consider upgrading to WPA3 for better security" >>
          ELSE << "CRITICAL: Upgrade to WPA3 immediately" >>)
    \o (IF Len(rs.password) >= 16 THEN <<>>
        ELSE IF Len(rs.password) >= 12 THEN <<>>
        ELSE IF Len(rs.password) >= 8
             THEN << "Use a longer password (16+ characters recommended)" >>
             ELSE << "CRITICAL: Password is too short" >>)
    \o (IF Contains(Lower(rs.ssid), "default") \/ Contains(Lower(rs.ssid), "admin")
        THEN << "Change default SSID to something unique" >> ELSE <<>>)
    \o (IF rs.guest_network_enabled
        THEN (IF rs.guest_password # rs.password THEN <<>>
              ELSE << "Use a different password for guest network" >>)
        ELSE << "Consider enabling guest network for visitors" >>)
    \o << "Keep firmware updated - check regularly with check_firmware_update()" >>

get_prompt_data_security_audit(rs) ==
    LET recommendations == get_prompt_data_recommendations(rs) IN
    Return(rs, get_prompt_data_result("Security audit report with recommendations",
        << "## Security Audit Report",
           "### Overall Security Score: " \o ToString(get_prompt_data_security_score(rs)) \o "/100",
           "- Security Mode: " \o rs.security_mode,
           "- Password Length: " \o ToString(Len(rs.password)) \o " characters",
           "- SSID: " \o rs.ssid,
           "- Guest Network: " \o (IF rs.guest_network_enabled THEN "Enabled" ELSE "Disabled"),
           "- Firmware Version: " \o rs.firmware_version >>
        \o [i \in 1..Len(recommendations) |-> ToString(i) \o ". " \o recommendations[i]]))

get_prompt_data_parental_controls(rs) ==
    Return(rs, get_prompt_data_result("Guide for setting up parental controls",
        << "## Parental Controls Guide",
           "- Connected devices: " \o ToString(Len(rs.connected_devices)),
           "- Guest network: " \o (IF rs.guest_network_enabled THEN "Enabled" ELSE "Disabled") >>))

get_prompt_data(rs, name, arguments) ==
    CASE name = "troubleshoot_connection" -> get_prompt_data_troubleshoot_connection(rs, arguments)
      [] name = "setup_guest_network" -> get_prompt_data_setup_guest_network(rs)
      [] name = "optimize_performance" -> get_prompt_data_optimize_performance(rs)
      [] name = "security_audit" -> get_prompt_data_security_audit(rs)
      [] name = "parental_controls" -> get_prompt_data_parental_controls(rs)
      [] OTHER -> Raise(rs, "ValueError", "Unknown prompt: " \o name)

(***************************************************************************)
(* wifi_router_mcp/server.py, get_prompt.  The message text is held as its *)
(* lines; of the lines without a placeholder only each template's title is *)
(* kept.                                                                   *)
(***************************************************************************)
\* the {description, messages} value handed back by every builder
get_prompt_result(description, lines) ==
    [ description |-> description,
      messages |-> << [ role |-> "user",
                        content |-> [type |-> "text", text |-> lines] ] >> ]

\* the "slow_speed" template, formatted
get_prompt_slow_speed(rs) ==
    << "## Troubleshooting Slow WiFi Speed",
       "- SSID: " \o rs.ssid,
       "- Channel: " \o ToString(rs.channel),
       "- Frequency: " \o rs.frequency_band,
       "- Connected devices: " \o ToString(Len(rs.connected_devices)),
       "1. Check if too many devices are connected (current: "
            \o ToString(Len(rs.connected_devices)) \o ")" >>

\* the "intermittent" template, formatted
get_prompt_intermittent(rs) ==
    << "## Troubleshooting Intermittent Connection",
       "- Channel: " \o ToString(rs.channel),
       "- Frequency: " \o rs.frequency_band,
       "- Uptime: " \o ToString(rs.uptime_seconds \div 86400) \o " days",
       "5. Check if router needs a reboot (high uptime: "
            \o ToString(rs.uptime_seconds \div 86400) \o " days)" >>

\* the "no_connection" template holds the replacement field
\* {"ON" if router_state.is_on else "OFF"}: str.format looks the field name up
\* among its keyword arguments and raises KeyError
get_prompt_no_connection(rs) ==
    Raise(rs, "KeyError", "'\"ON\" if router_state'")


\* the "device_cant_connect" template holds the replacement field
\* {"enabled" if router_state.guest_network_enabled else "disabled"}: KeyError
get_prompt_device_cant_connect(rs) ==
    Raise(rs, "KeyError", "'\"enabled\" if router_state'")

get_prompt_troubleshoot_connection(rs, arguments) ==
    LET issue_type == IF arguments = None \/ arguments = EmptyDict
                      THEN "no_connection"
                      ELSE Get(arguments, "issue_type", "no_connection")
        template == IF issue_type \in {"slow_speed", "no_connection", "intermittent",
                                       "device_cant_connect"}
                    THEN issue_type ELSE "no_connection"
        description == "Troubleshooting guide for " \o Replace(issue_type, "_", " ")
    IN
    CASE template = "slow_speed" -> Return(rs, get_prompt_result(description, get_prompt_slow_speed(rs)))
      [] template = "intermittent" -> Return(rs, get_prompt_result(description, get_prompt_intermittent(rs)))
      [] template = "no_connection" -> get_prompt_no_connection(rs)
      [] template = "device_cant_connect" -> get_prompt_device_cant_connect(rs)

get_prompt_setup_guest_network(rs) ==
    Return(rs, get_prompt_result("Guide for setting up guest network",
        << "## Setting Up Guest WiFi Network",
           "- Main SSID: " \o rs.ssid,
           "- Guest Network: " \o (IF rs.guest_network_enabled THEN "Enabled" ELSE "Disabled"),
           "- Guest SSID: " \o (IF rs.guest_network_enabled THEN rs.guest_ssid ELSE "Not set"),
           "1. Choose a guest network name (SSID) - something like \"" \o rs.ssid \o "_Guest\"",
           "    guest_ssid=\"" \o rs.guest_ssid \o "\"," >>))

get_prompt_optimize_performance(rs) ==
    Return(rs, get_prompt_result("Router performance optimization guide",
        << "## Router Performance Optimization Guide",
           "- Frequency Band: " \o rs.frequency_band,
           "- Channel: " \o ToString(rs.channel),
           "- Connected Devices: " \o ToString(Len(rs.connected_devices)),
           "- Security Mode: " \o rs.security_mode,
           "Current: " \o rs.frequency_band,
           "Current channel: " \o ToString(rs.channel),
           "- Monitor device count: Currently " \o ToString(Len(rs.connected_devices))
                \o " devices",
           "- Reboot periodically if uptime is high (current: "
                \o ToString(rs.uptime_seconds \div 86400) \o " days)" >>))

\* security_score after the four checks
get_prompt_security_score(rs) ==
    (IF rs.security_mode = "WPA3" THEN 30
     ELSE IF rs.security_mode = "WPA2" THEN 20 ELSE 5)
    + (IF Len(rs.password) >= 16 THEN 25
       ELSE IF Len(rs.password) >= 12 THEN 20
       ELSE IF Len(rs.password) >= 8 THEN 10 ELSE 0)
    + (IF Contains(Lower(rs.ssid), "default") \/ Contains(Lower(rs.ssid), "admin")
       THEN 0 ELSE 15)
    + (IF rs.guest_network_enabled
       THEN 15 + (IF rs.guest_password # rs.password THEN 15 ELSE 0)
       ELSE 0)

\* recommendations, in the order the checks append them (the warning sign
\* before CRITICAL and the backquotes of the last entry are left out)
get_prompt_recommendations(rs) ==
    (IF rs.security_mode = "WPA3" THEN <<>>
     ELSE IF rs.security_mode = "WPA2"
          THEN << "Consider upgrading to WPA3 for better security" >>
          ELSE << "CRITICAL: Upgrade to WPA3 immediately" >>)
    \o (IF Len(rs.password) >= 16 THEN <<>>
        ELSE IF Len(rs.password) >= 12 THEN <<>>
        ELSE IF Len(rs.password) >= 8
             THEN << "Use a longer password (16+ characters recommended)" >>
             ELSE << "CRITICAL: Password is too short" >>)
    \o (IF Contains(Lower(rs.ssid), "default") \/ Contains(Lower(rs.ssid), "admin")
        THEN << "Change default SSID to something unique" >> ELSE <<>>)
    \o (IF rs.guest_network_enabled
        THEN (IF rs.guest_password # rs.password THEN <<>>
              ELSE << "Use a different password for guest network" >>)
        ELSE << "Consider enabling guest network for visitors" >>)
    \o << "Keep firmware updated - check regularly with check_firmware_update()" >>

get_prompt_security_audit(rs) ==
    LET recommendations == get_prompt_recommendations(rs) IN
    Return(rs, get_prompt_result("Security audit report with recommendations",
        << "## Security Audit Report",
           "### Overall Security Score: " \o ToString(get_prompt_security_score(rs)) \o "/100",
           "- Security Mode: " \o rs.security_mode,
           "- Password Length: " \o ToString(Len(rs.password)) \o " characters",
           "- SSID: " \o rs.ssid,
           "- Guest Network: " \o (IF rs.guest_network_enabled THEN "Enabled" ELSE "Disabled"),
           "- Firmware Version: " \o rs.firmware_version >>
        \o [i \in 1..Len(recommendations) |-> ToString(i) \o ". " \o recommendations[i]]))

get_prompt_parental_controls(rs) ==
    Return(rs, get_prompt_result("Guide for parental controls and device management",
        << "## Parental Controls and Device Management Guide",
           "### Current Device Count: " \o ToString(Len(rs.connected_devices)) >>
        \o [i \in 1..Len(rs.connected_devices) |->
                "- " \o rs.connected_devices[i].name \o " (" \o rs.connected_devices[i].mac
                     \o ") - " \o rs.connected_devices[i].ip]))

get_prompt(rs, name, arguments) ==
    CASE name = "troubleshoot_connection" -> get_prompt_troubleshoot_connection(rs, arguments)
      [] name = "setup_guest_network" -> get_prompt_setup_guest_network(rs)
      [] name = "optimize_performance" -> get_prompt_optimize_performance(rs)
      [] name = "security_audit" -> get_prompt_security_audit(rs)
      [] name = "parental_controls" -> get_prompt_parental_controls(rs)
      [] OTHER -> Raise(rs, "ValueError", "Unknown prompt: " \o name)

(***************************************************************************)
(* Requests explored: tool names with argument dicts, resource URIs,       *)
(* prompt names with argument dicts, and draws of the random module.       *)
(***************************************************************************)
ToolNames ==
    { "scan_networks", "get_router_status", "reboot_router", "change_wifi_password",
      "change_ssid", "enable_guest_network", "disconnect_device", "change_channel",
      "set_frequency_band", "check_firmware_update", "run_speed_test" }

ResourceUris ==
    { "router://devices", "router://stats", "router://config", "router://logs",
      "router://networks" }

PromptNames ==
    { "troubleshoot_connection", "setup_guest_network", "optimize_performance",
      "security_audit", "parental_controls" }

ToolArguments(name) ==
    CASE name = "reboot_router" ->
            { None, EmptyDict, [confirm |-> FALSE], [confirm |-> TRUE] }
      [] name = "change_wifi_password" ->
            { EmptyDict, [new_password |-> "short12"],
              [new_password |-> "********"], [new_password |-> "longenough1"] }
      [] name = "change_ssid" ->
            { [new_ssid |-> ""], [new_ssid |-> "Admin_Net"] }
      [] name = "enable_guest_network" ->
            { EmptyDict,
              [enabled |-> TRUE, guest_ssid |-> ""],
              [enabled |-> TRUE, guest_ssid |-> "Kids_WiFi", guest_password |-> "longenough1"],
              [enabled |-> FALSE, guest_ssid |-> "Kids_WiFi", guest_password |-> "longenough1"] }
      [] name = "disconnect_device" ->
            { [mac_address |-> "AA:BB:CC:DD:EE:01"], [mac_address |-> "AA:BB:CC:DD:EE:02"],
              [mac_address |-> "AA:BB:CC:DD:EE:03"], [mac_address |-> "aa:bb:cc:dd:ee:01"] }
      [] name = "change_channel" ->
            { EmptyDict, [channel |-> 0], [channel |-> 36], [channel |-> -1] }
      [] name = "set_frequency_band" ->
            { EmptyDict, [band |-> "6GHz"], [band |-> "2.4GHz"], [band |-> "5GHz"],
              [band |-> "dual"] }
      [] OTHER -> { EmptyDict }

ToolRequests ==
    UNION { { [name |-> n, arguments |-> a] : a \in ToolArguments(n) } :
                    n \in ToolNames \cup {"nope"} }

\* draws of uniform(-5, 5) and uniform(-3, 3) in hundredths, randint(-2, 2), randint(1, 5)
RandomDraws ==
    { [download |-> -500, upload |-> -300, latency |-> -2, jitter |-> 1],
      [download |-> 500, upload |-> 300, latency |-> 2, jitter |-> 5] }

\* the draw recorded for a tool that draws nothing
NoDraw == [download |-> 0, upload |-> 0, latency |-> 0, jitter |-> 0]

DrawsFor(name) == IF name = "run_speed_test" THEN RandomDraws ELSE {NoDraw}

UriRequests == ResourceUris \cup { "router://bogus", "router://Config" }

PromptRequests ==
    { [name |-> "troubleshoot_connection", arguments |-> a] :
        a \in { EmptyDict, [issue_type |-> "slow_speed"],
                [issue_type |-> "no_connection"], [issue_type |-> "intermittent"],
                [issue_type |-> "device_cant_connect"], [issue_type |-> "bogus_type"] } }
    \cup { [name |-> n, arguments |-> EmptyDict] :
            n \in (PromptNames \ {"troubleshoot_connection"}) \cup {"nope"} }

(***************************************************************************)
(* The state machine.                                                      *)
(***************************************************************************)
Modules == {"shared", "mcp"}

\* the tasks of the event loop, and a task before its request arrives
AsyncTasks == 1..MaxTasks

IdleTask ==
    [ pc |-> "idle", surface |-> "", op |-> "", name |-> "", arguments |-> EmptyDict,
      along |-> {}, device |-> Null, outcome |-> "", result |-> EmptyDict ]

NoResponse ==
    [ module |-> "", op |-> "", name |-> "", arguments |-> EmptyDict,
      outcome |-> "", result |-> EmptyDict ]

Init ==
    /\ router_state = [m \in Modules |->
                          IF m = "shared" THEN SharedRouterState ELSE McpRouterState]
    /\ response = NoResponse
    /\ twin_state = SharedRouterState
    /\ tasks = [t \in AsyncTasks |-> IdleTask]

\* log entries written since start-up, over both modules
NewLogs ==
    (Len(router_state["shared"].logs) - Len(SharedRouterState.logs))
    + (Len(router_state["mcp"].logs) - Len(McpRouterState.logs))

\* a call that handed back `out` was served by module m
Served(m, op, name, arguments, out) ==
    /\ Len(out.state.logs) > Len(router_state[m].logs) => NewLogs < MaxNewLogs
    /\ router_state' = [router_state EXCEPT ![m] = out.state]
    /\ response' = [ module |-> m, op |-> op, name |-> name, arguments |-> arguments,
                     outcome |-> out.outcome, result |-> out.result ]
    /\ UNCHANGED <<twin_state, tasks>>

CallToolData(name, arguments, rnd) ==
    Served("shared", "call_tool", name, arguments,
           call_tool_data(router_state["shared"], name, arguments, rnd))

ReadResourceData(uri) ==
    Served("shared", "read_resource", uri, EmptyDict,
           read_resource_data(router_state["shared"], uri))

GetPromptData(name, arguments) ==
    Served("shared", "get_prompt", name, arguments,
           get_prompt_data(router_state["shared"], name, arguments))

CallTool(name, arguments, rnd) ==
    Served("mcp", "call_tool", name, arguments,
           call_tool(router_state["mcp"], name, arguments, rnd))

ReadResource(uri) ==
    Served("mcp", "read_resource", uri, EmptyDict,
           read_resource(router_state["mcp"], uri))

GetPrompt(name, arguments) ==
    Served("mcp", "get_prompt", name, arguments,
           get_prompt(router_state["mcp"], name, arguments))

\* requests served by wifi_router_shared.router
NextShared ==
    \/ \E req \in ToolRequests : \E rnd \in DrawsFor(req.name) :
            CallToolData(req.name, req.arguments, rnd)
    \/ \E uri \in UriRequests : ReadResourceData(uri)
    \/ \E req \in PromptRequests : GetPromptData(req.name, req.arguments)

\* requests served by wifi_router_mcp.server
NextMcp ==
    \/ \E req \in ToolRequests : \E rnd \in DrawsFor(req.name) :
            CallTool(req.name, req.arguments, rnd)
    \/ \E uri \in UriRequests : ReadResource(uri)
    \/ \E req \in PromptRequests : GetPrompt(req.name, req.arguments)

\* the shared engine alone: the module server keeps its start-up state
Spec == Init /\ [][NextShared]_vars

\* the protocol server module alone
SpecMcp == Init /\ [][NextMcp]_vars

(***************************************************************************)
(* wifi_router_rest/server.py: the REST endpoints.  They import call_tool, *)
(* read_resource and get_prompt from wifi_router_mcp.server, so they work  *)
(* on that module's router_state.  An HTTPException is the answer with its *)
(* status code; a handler that returns is answered 200 by FastAPI, and an  *)
(* exception that is no HTTPException leaves the handler and is answered   *)
(* 500.                                                                    *)
(***************************************************************************)
resource_uri_map ==
    [ devices |-> "router://devices",
      stats |-> "router://stats",
      config |-> "router://config",
      logs |-> "router://logs",
      networks |-> "router://networks" ]

\* parse_json_maybe(value): json.loads(value) when the text decodes, else
\* the text itself.  `decodes` says whether json.loads accepts the text:
\* every json.dumps output does, the newline-joined log lines do not.
parse_json_maybe(value, decodes) ==
    IF decodes THEN json_loads(value) ELSE value

\* raise HTTPException(status_code=status_code, detail=detail)
HTTPException(rs, status_code, detail) ==
    [ state |-> rs, outcome |-> "raise",
      result |-> [exception |-> "HTTPException", status_code |-> status_code,
                  detail |-> detail] ]

\* try: ... except ValueError as exc: raise HTTPException(400, str(exc))
except_ValueError(out) ==
    IF out.outcome = "raise" /\ out.result.exception = "ValueError"
    THEN HTTPException(out.state, 400, out.result.message)
    ELSE out

read_resource_endpoint(rs, resource_id) ==
    LET uri == Get(resource_uri_map, resource_id, resource_id)
        out == except_ValueError(read_resource(rs, uri))
    IN
    IF out.outcome = "raise"
    THEN out
    ELSE Return(out.state, parse_json_maybe(out.result, uri # "router://logs"))

call_tool_endpoint(rs, tool_name, arguments, rnd) ==
    LET out == except_ValueError(call_tool(rs, tool_name, arguments, rnd))
        contents == out.result
    IN
    IF out.outcome = "raise"
    THEN out
    ELSE IF contents = <<>>
         THEN Return(out.state, EmptyDict)
         ELSE Return(out.state, parse_json_maybe(contents[1].text, TRUE))

\* the prompt result and its model_dump() are the same record here
get_prompt_endpoint(rs, prompt_name, arguments) ==
    except_ValueError(get_prompt(rs, prompt_name, arguments))

\* the status code the client receives
http_status(resp) ==
    IF resp.outcome = "return"
    THEN 200
    ELSE IF resp.result.exception = "HTTPException"
         THEN resp.result.status_code
         ELSE 500

\* path parameters of GET /resources/{resource_id}
ResourceIds ==
    DOMAIN resource_uri_map \cup { "router://config", "bogus" }

\* POST /tools/{tool_name}: the body is a JSON object, {} when none is sent
RestToolRequests == { req \in ToolRequests : req.arguments # None }

\* a request answered by the REST server, which works on the state of
\* wifi_router_mcp.server
ServedRest(op, name, arguments, out) ==
    /\ Len(out.state.logs) > Len(router_state["mcp"].logs) => NewLogs < MaxNewLogs
    /\ router_state' = [router_state EXCEPT !["mcp"] = out.state]
    /\ response' = [ module |-> "rest", op |-> op, name |-> name, arguments |-> arguments,
                     outcome |-> out.outcome, result |-> out.result ]
    /\ UNCHANGED <<twin_state, tasks>>

CallToolEndpoint(tool_name, arguments, rnd) ==
    ServedRest("call_tool", tool_name, arguments,
               call_tool_endpoint(router_state["mcp"], tool_name, arguments, rnd))

ReadResourceEndpoint(resource_id) ==
    ServedRest("read_resource", resource_id, EmptyDict,
               read_resource_endpoint(router_state["mcp"], resource_id))

GetPromptEndpoint(prompt_name, arguments) ==
    ServedRest("get_prompt", prompt_name, arguments,
               get_prompt_endpoint(router_state["mcp"], prompt_name, arguments))

\* requests served by wifi_router_rest.server
NextRest ==
    \/ \E req \in RestToolRequests : \E rnd \in DrawsFor(req.name) :
            CallToolEndpoint(req.name, req.arguments, rnd)
    \/ \E resource_id \in ResourceIds : ReadResourceEndpoint(resource_id)
    \/ \E req \in PromptRequests : GetPromptEndpoint(req.name, req.arguments)

\* the REST server alone
SpecRest == Init /\ [][NextRest]_vars

\* one process that imports all three modules (as test_server.py imports
\* two of them): requests arrive over every entry point, until one log
\* entry short of the budget
NextAll ==
    /\ \/ NextShared
       \/ NextMcp
       \/ NextRest
    /\ NewLogs' < MaxNewLogs

SpecAll == Init /\ [][NextAll]_vars

(***************************************************************************)
(* Two runs of the shared engine side by side.  Both start from the state  *)
(* the constructor builds and are sent the same requests, except that a    *)
(* password the first run is asked to store may be another password in the *)
(* second run: the two states then differ in password and guest_password   *)
(* and in nothing the requests did not put there.                          *)
(***************************************************************************)
\* the password the second run may be given instead
OtherSecret == "0therSecret"

\* the argument dicts the second run may receive for a call the first run
\* receives with `arguments`: the same dict, or the same dict with the
\* password to store replaced
SecretVariants(name, arguments) ==
    CASE name = "change_wifi_password" /\ Len(Get(arguments, "new_password", "")) >= 8 ->
            { arguments, [arguments EXCEPT !["new_password"] = OtherSecret] }
      [] /\ name = "enable_guest_network"
         /\ arguments # None
         /\ Get(arguments, "guest_password", "") # "" ->
            { arguments, [arguments EXCEPT !["guest_password"] = OtherSecret] }
      [] OTHER -> { arguments }

TwinCallToolData(name, arguments, twin_arguments, rnd) ==
    LET out == call_tool_data(router_state["shared"], name, arguments, rnd)
        twin_out == call_tool_data(twin_state, name, twin_arguments, rnd)
    IN
    /\ Len(out.state.logs) > Len(router_state["shared"].logs) => NewLogs < MaxNewLogs
    /\ router_state' = [router_state EXCEPT !["shared"] = out.state]
    /\ response' = [ module |-> "shared", op |-> "call_tool", name |-> name,
                     arguments |-> arguments,
                     outcome |-> out.outcome, result |-> out.result ]
    /\ twin_state' = twin_out.state
    /\ UNCHANGED tasks

NextTwin ==
    \/ \E req \in ToolRequests : \E rnd \in DrawsFor(req.name) :
         \E twin_arguments \in SecretVariants(req.name, req.arguments) :
            TwinCallToolData(req.name, req.arguments, twin_arguments, rnd)
    \/ \E uri \in UriRequests : ReadResourceData(uri)

SpecTwin == Init /\ [][NextTwin]_vars

(***************************************************************************)
(* Requests served at the same time.  uvicorn and asyncio.run drive one    *)
(* event loop on one thread; every request is a task running the           *)
(* coroutine call_tool or read_resource of wifi_router_mcp.server, from    *)
(* the protocol server or awaited by a REST endpoint.  The steps below     *)
(* follow the statements of the handlers one by one for reboot_router and  *)
(* disconnect_device; a resource read and get_router_status build their    *)
(* answer in a single expression.                                          *)
(***************************************************************************)
\* the requests sent to the event loop
AsyncRequests ==
    { [surface |-> s, op |-> "call_tool", name |-> r.name, arguments |-> r.arguments] :
        s \in {"mcp", "rest"},
        r \in { [name |-> "reboot_router", arguments |-> [confirm |-> TRUE]],
                [name |-> "disconnect_device",
                 arguments |-> [mac_address |-> "AA:BB:CC:DD:EE:01"]],
                [name |-> "get_router_status", arguments |-> EmptyDict] } }
    \cup
    { [surface |-> s, op |-> "read_resource", name |-> id, arguments |-> EmptyDict] :
        s \in {"mcp", "rest"}, id \in {"devices", "logs"} }

\* a slip: a suspension point (an await) between the two assignments of a reboot
MidHandler_await == {"disconnect_remove", "disconnect_log"}

\* positions inside a handler: the coroutine has started and not returned
MidHandler == {"reboot_log", "disconnect_remove", "disconnect_log"}

\* tasks whose request has arrived and is not answered yet
InFlight == { t \in AsyncTasks : tasks[t].pc \notin {"idle", "done"} }

\* a slip: threads, which the interpreter may switch between any two statements
CanRun_threads(t) == TRUE

\* the event loop resumes a task only when no other coroutine is running:
\* call_tool and read_resource contain no await, and the REST endpoints
\* await them directly, so a started handler runs to its return
CanRun(t) ==
    \A u \in AsyncTasks \ {t} : tasks[u].pc \notin MidHandler

\* what the caller on task t's surface gets for the handler outcome `out`
AnswerOn(surface, op, resource_decodes, out) ==
    IF surface = "mcp"
    THEN out
    ELSE LET o == except_ValueError(out) IN
         IF o.outcome = "raise"
         THEN o
         ELSE IF op = "call_tool"
              THEN Return(o.state, parse_json_maybe(o.result[1].text, TRUE))
              ELSE Return(o.state, parse_json_maybe(o.result, resource_decodes))

\* task t moves to position pc, with router_state of the server as rs
Continue(t, pc, rs, device) ==
    /\ tasks' = [tasks EXCEPT ![t].pc = pc, ![t].device = device]
    /\ router_state' = [router_state EXCEPT !["mcp"] = rs]
    /\ UNCHANGED <<response, twin_state>>

\* task t's handler ends with `out`
Finish(t, out) ==
    LET answer == AnswerOn(tasks[t].surface, tasks[t].op,
                           tasks[t].name # "logs", out)
    IN
    /\ tasks' = [tasks EXCEPT ![t].pc = "done",
                              ![t].outcome = answer.outcome,
                              ![t].result = answer.result]
    /\ router_state' = [router_state EXCEPT !["mcp"] = out.state]
    /\ UNCHANGED <<response, twin_state>>

\* a request arrives and its task is created
Receive(t, req) ==
    /\ tasks[t].pc = "idle"
    /\ tasks' = [tasks EXCEPT ![t] =
                    [IdleTask EXCEPT !.pc = "ready", !.surface = req.surface,
                                     !.op = req.op, !.name = req.name,
                                     !.arguments = req.arguments,
                                     !.along = InFlight]]
    /\ UNCHANGED <<router_state, response, twin_state>>

\* read_resource: one return statement
ReadResourceStep(t) ==
    /\ tasks[t].pc = "ready"
    /\ tasks[t].op = "read_resource"
    /\ CanRun(t)
    /\ Finish(t, read_resource(router_state["mcp"], resource_uri_map[tasks[t].name]))

\* call_tool, get_router_status: one dict display and the return
GetRouterStatusStep(t) ==
    /\ tasks[t].pc = "ready"
    /\ tasks[t].op = "call_tool"
    /\ tasks[t].name = "get_router_status"
    /\ CanRun(t)
    /\ Finish(t, call_tool(router_state["mcp"], "get_router_status",
                           tasks[t].arguments, NoDraw))

\* call_tool, reboot_router: if arguments.get("confirm"): uptime_seconds = 0
RebootUptime(t) ==
    LET rs == router_state["mcp"] IN
    /\ tasks[t].pc = "ready"
    /\ tasks[t].op = "call_tool"
    /\ tasks[t].name = "reboot_router"
    /\ CanRun(t)
    /\ IF Get(tasks[t].arguments, "confirm", FALSE)
       THEN Continue(t, "reboot_log", [rs EXCEPT !.uptime_seconds = 0], Null)
       ELSE Finish(t, Return(rs, <<TextContent(json_dumps(
                        [status |-> "cancelled",
                         message |-> "Reboot cancelled. Set confirm=true to proceed."]))>>))

\* logs.insert(0, ...), result = {...}, return
RebootLog(t) ==
    LET rs == router_state["mcp"] IN
    /\ tasks[t].pc = "reboot_log"
    /\ CanRun(t)
    /\ Finish(t, Return([rs EXCEPT !.logs = Insert0(@, Stamp("Router rebooted"))],
                        <<TextContent(json_dumps(
                            [status |-> "success",
                             message |-> "Router is rebooting. This will take approximately 2 minutes.",
                             timestamp |-> "ts"]))>>))

\* call_tool, disconnect_device: mac_address = ..., device = next(...), if device:
DisconnectLookup(t) ==
    LET rs == router_state["mcp"]
        mac_address == Get(tasks[t].arguments, "mac_address", "")
        i == FirstWithMac(rs.connected_devices, mac_address)
    IN
    /\ tasks[t].pc = "ready"
    /\ tasks[t].op = "call_tool"
    /\ tasks[t].name = "disconnect_device"
    /\ CanRun(t)
    /\ IF i # 0
       THEN Continue(t, "disconnect_remove", rs, Some(rs.connected_devices[i]))
       ELSE Finish(t, Return(rs, <<TextContent(json_dumps(
                        [status |-> "error",
                         message |-> "Device with MAC address " \o mac_address
                                     \o " not found"]))>>))

\* connected_devices.remove(device): ValueError when the device is not in the list
DisconnectRemove(t) ==
    LET rs == router_state["mcp"]
        device == tasks[t].device[1]
    IN
    /\ tasks[t].pc = "disconnect_remove"
    /\ CanRun(t)
    /\ IF \E k \in 1..Len(rs.connected_devices) : rs.connected_devices[k] = device
       THEN Continue(t, "disconnect_log",
                     [rs EXCEPT !.connected_devices = ListRemove(@, device)],
                     tasks[t].device)
       ELSE Finish(t, Raise(rs, "ValueError", "list.remove(x): x not in list"))

\* logs.insert(0, ...), result = {...}, return
DisconnectLog(t) ==
    LET rs == router_state["mcp"]
        device == tasks[t].device[1]
        mac_address == Get(tasks[t].arguments, "mac_address", "")
    IN
    /\ tasks[t].pc = "disconnect_log"
    /\ CanRun(t)
    /\ Finish(t, Return([rs EXCEPT !.logs = Insert0(@, Stamp("Device disconnected: "
                                                            \o device.name \o " ("
                                                            \o mac_address \o ")"))],
                        <<TextContent(json_dumps(
                            [status |-> "success",
                             message |-> "Device '" \o device.name
                                         \o "' disconnected successfully",
                             device |-> device]))>>))

NextAsync ==
    \E t \in AsyncTasks :
        \/ \E req \in AsyncRequests : Receive(t, req)
        \/ ReadResourceStep(t)
        \/ GetRouterStatusStep(t)
        \/ RebootUptime(t)
        \/ RebootLog(t)
        \/ DisconnectLookup(t)
        \/ DisconnectRemove(t)
        \/ DisconnectLog(t)

SpecAsync == Init /\ [][NextAsync]_vars

(***************************************************************************)
(* Reading a response.                                                     *)
(***************************************************************************)
\* the result dict of a returned tool call: call_tool_data hands it back as
\* it is, call_tool inside one TextContent as JSON text
Payload(resp) ==
    IF resp.module = "mcp" THEN json_loads(resp.result[1].text) ELSE resp.result

\* the status field of a returned tool call, "" for anything else
Status(resp) ==
    IF resp.op = "call_tool" /\ resp.outcome = "return" THEN Payload(resp).status ELSE ""

\* the step serves a tool call `name` with an argument dict on module m
ToolStep(m, name) ==
    /\ response'.module = m
    /\ response'.op = "call_tool"
    /\ response'.name = name
    /\ response'.arguments # None

\* what router://config shows of module m's state
ConfigOf(m) ==
    IF m = "mcp"
    THEN json_loads(read_resource(router_state[m], "router://config").result)
    ELSE read_resource_data(router_state[m], "router://config").result

Macs(devices) == { devices[i].mac : i \in 1..Len(devices) }

(***************************************************************************)
(* C1.  For every mac present in connected_devices, disconnect_device(mac) *)
(* returns status success, removes exactly the entry with that mac, the    *)
(* other entries staying in their order, and the device count drops by     *)
(* one; a second disconnect_device with the same mac returns status error  *)
(* and leaves connected_devices unchanged.                                 *)
(***************************************************************************)
C1_DisconnectDevice ==
    [][\A m \in Modules :
        ToolStep(m, "disconnect_device") =>
            LET mac == Get(response'.arguments, "mac_address", "")
                before == router_state[m].connected_devices
                after == router_state'[m].connected_devices
            IN  /\ mac \in Macs(before) =>
                    /\ Status(response') = "success"
                    /\ after = SelectSeq(before, LAMBDA d : d.mac # mac)
                    /\ Len(after) = Len(before) - 1
                    /\ mac \notin Macs(after)
                /\ mac \notin Macs(before) =>
                    /\ Status(response') = "error"
                    /\ after = before
      ]_vars

\* a second disconnect_device of an initially connected mac was answered
C1_Witness ==
    /\ response.op = "call_tool"
    /\ response.name = "disconnect_device"
    /\ response.arguments # None
    /\ Get(response.arguments, "mac_address", "") \in Macs(InitialDevices)
    /\ Status(response) = "error"
    /\ Len(router_state[response.module].connected_devices) = Len(InitialDevices) - 1

(***************************************************************************)
(* C2.  change_wifi_password(new_password) succeeds exactly when           *)
(* new_password has at least 8 characters: then password becomes           *)
(* new_password, exactly one log entry is prepended and logs[0] mentions    *)
(* the password change; below 8 characters, or with the argument absent,   *)
(* it returns status error and password and logs are unchanged.            *)
(***************************************************************************)
C2_ChangeWifiPassword ==
    [][\A m \in Modules :
        ToolStep(m, "change_wifi_password") =>
            LET new_password == Get(response'.arguments, "new_password", "")
                before == router_state[m]
                after == router_state'[m]
            IN  /\ Status(response') = "success" <=> Len(new_password) >= 8
                /\ Len(new_password) >= 8 =>
                    /\ after.password = new_password
                    /\ Len(after.logs) = Len(before.logs) + 1
                    /\ Tail(after.logs) = before.logs
                    /\ Contains(after.logs[1], "password changed")
                /\ Len(new_password) < 8 =>
                    /\ Status(response') = "error"
                    /\ after.password = before.password
                    /\ after.logs = before.logs
      ]_vars

\* an accepted password change was answered
C2_Witness ==
    /\ response.op = "call_tool"
    /\ response.name = "change_wifi_password"
    /\ Status(response) = "success"
    /\ router_state[response.module].password = "longenough1"

(***************************************************************************)
(* C3.  reboot_router with confirm false or absent returns status          *)
(* cancelled and leaves uptime_seconds and logs unchanged; with            *)
(* confirm=true it returns status success, sets uptime_seconds to 0 and    *)
(* prepends exactly one log entry.                                         *)
(***************************************************************************)
C3_RebootRouter ==
    [][\A m \in Modules :
        ToolStep(m, "reboot_router") =>
            LET before == router_state[m]
                after == router_state'[m]
            IN  IF "confirm" \in DOMAIN response'.arguments /\ response'.arguments["confirm"]
                THEN /\ Status(response') = "success"
                     /\ after.uptime_seconds = 0
                     /\ Len(after.logs) = Len(before.logs) + 1
                     /\ Tail(after.logs) = before.logs
                ELSE /\ Status(response') = "cancelled"
                     /\ after.uptime_seconds = before.uptime_seconds
                     /\ after.logs = before.logs
      ]_vars

\* a reboot without confirmation was answered after a confirmed one
C3_Witness ==
    /\ response.op = "call_tool"
    /\ response.name = "reboot_router"
    /\ Status(response) = "cancelled"
    /\ router_state[response.module].uptime_seconds = 0

(***************************************************************************)
(* C4.  set_frequency_band(band) returns status success and sets           *)
(* frequency_band to band exactly when band is one of 2.4GHz, 5GHz, dual;  *)
(* for any other or missing band it returns status error and               *)
(* frequency_band and logs are unchanged.                                  *)
(***************************************************************************)
C4_SetFrequencyBand ==
    [][\A m \in Modules :
        ToolStep(m, "set_frequency_band") =>
            LET args == response'.arguments
                allowed == "band" \in DOMAIN args /\ args["band"] \in {"2.4GHz", "5GHz", "dual"}
                before == router_state[m]
                after == router_state'[m]
            IN  /\ Status(response') = "success" <=> allowed
                /\ allowed => after.frequency_band = args["band"]
                /\ ~allowed =>
                    /\ Status(response') = "error"
                    /\ after.frequency_band = before.frequency_band
                    /\ after.logs = before.logs
      ]_vars

\* a band outside the three was refused after an allowed band had been set
C4_Witness ==
    /\ response.op = "call_tool"
    /\ response.name = "set_frequency_band"
    /\ response.arguments = [band |-> "6GHz"]
    /\ Status(response) = "error"
    /\ router_state[response.module].frequency_band = "dual"

(***************************************************************************)
(* C5.  As claimed: in every reachable state the password field returned   *)
(* by reading router://config is the fixed mask and is never equal to the  *)
(* stored password, whatever passwords change_wifi_password has accepted.  *)
(* change_wifi_password accepts the eight asterisks themselves, and then   *)
(* the mask shown is the stored password.                                  *)
(***************************************************************************)
C5_ConfigNeverEqualsPassword ==
    \A m \in Modules :
        /\ ConfigOf(m).password = "********"
        /\ ConfigOf(m).password # router_state[m].password

(***************************************************************************)
(* C5, amended.  In every reachable state the password field returned by   *)
(* reading router://config is the fixed mask "********", whatever          *)
(* passwords change_wifi_password has accepted; it differs from the stored *)
(* password in every state whose stored password is not itself that mask.  *)
(***************************************************************************)
C5_ConfigPasswordMasked ==
    \A m \in Modules :
        /\ ConfigOf(m).password = "********"
        /\ router_state[m].password # "********" =>
                ConfigOf(m).password # router_state[m].password
        /\ ( /\ response.module = m
             /\ response.op = "read_resource"
             /\ response.name = "router://config" ) =>
                (IF m = "mcp" THEN json_loads(response.result) ELSE response.result).password
                    = "********"

\* router://config was read after a password change had been accepted
C5_Witness ==
    /\ response.op = "read_resource"
    /\ response.name = "router://config"
    /\ response.outcome = "return"
    /\ router_state[response.module].password = "longenough1"

(***************************************************************************)
(* C6.  A tool call that returns status error or cancelled leaves the      *)
(* whole RouterState unchanged: every configuration field,                 *)
(* connected_devices, network_stats and logs.                              *)
(***************************************************************************)
C6_ErrorLeavesStateUnchanged ==
    [][\A m \in Modules :
        ( /\ response'.module = m
          /\ response'.op = "call_tool"
          /\ Status(response') \in {"error", "cancelled"} ) =>
            router_state' = router_state
      ]_vars

\* an empty SSID was refused in a state that earlier calls had changed
C6_Witness ==
    /\ response.op = "call_tool"
    /\ response.name = "change_ssid"
    /\ response.arguments = [new_ssid |-> ""]
    /\ Status(response) = "error"
    /\ router_state[response.module].ssid = "Admin_Net"

(***************************************************************************)
(* C7.  read_resource with a URI that is not exactly one of the five       *)
(* router:// URIs (the match is case-sensitive), call_tool with a name     *)
(* that is not one of the eleven tools and get_prompt with a name that is  *)
(* not one of the five prompts each fail with an error and leave           *)
(* RouterState unchanged.                                                  *)
(***************************************************************************)
C7_UnknownNameFails ==
    [][\A m \in Modules :
        ( /\ response'.module = m
          /\ \/ response'.op = "read_resource" /\ response'.name \notin ResourceUris
             \/ response'.op = "call_tool" /\ response'.name \notin ToolNames
             \/ response'.op = "get_prompt" /\ response'.name \notin PromptNames ) =>
            /\ response'.outcome = "raise"
            /\ response'.result.exception = "ValueError"
            /\ router_state' = router_state
      ]_vars

\* a URI differing from router://config only in case was refused
C7_Witness ==
    /\ response.op = "read_resource"
    /\ response.name = "router://Config"
    /\ response.outcome = "raise"

(***************************************************************************)
(* C8.  Every tool call that succeeds in mutating state (reboot_router,    *)
(* change_wifi_password, change_ssid, enable_guest_network,                *)
(* disconnect_device, change_channel, set_frequency_band) and every        *)
(* check_firmware_update and run_speed_test call lengthens logs by exactly *)
(* one; scan_networks, get_router_status and every call that returns       *)
(* error or cancelled leave the length of logs unchanged.                  *)
(***************************************************************************)
MutatingTools ==
    { "reboot_router", "change_wifi_password", "change_ssid", "enable_guest_network",
      "disconnect_device", "change_channel", "set_frequency_band" }

C8_LogLength ==
    [][\A m \in Modules :
        (response'.module = m /\ response'.op = "call_tool" /\ response'.outcome = "return") =>
            LET grown == Len(router_state'[m].logs) - Len(router_state[m].logs)
                name == response'.name
            IN  /\ (name \in MutatingTools /\ Status(response') = "success") => grown = 1
                /\ name \in {"check_firmware_update", "run_speed_test"} => grown = 1
                /\ name \in {"scan_networks", "get_router_status"} => grown = 0
                /\ Status(response') \in {"error", "cancelled"} => grown = 0
      ]_vars

\* a firmware check was logged on top of an earlier entry
C8_Witness ==
    /\ response.op = "call_tool"
    /\ response.name = "check_firmware_update"
    /\ Len(router_state["shared"].logs) + Len(router_state["mcp"].logs)
            = Len(SharedRouterState.logs) + Len(McpRouterState.logs) + 2

(***************************************************************************)
(* C9.  After any sequence of tool calls, logs[0] is the entry written by  *)
(* the most recent log-writing call, and the log list as it was before     *)
(* each call is kept unchanged as the tail of the log list after it:       *)
(* entries are only prepended, never removed, reordered or rewritten.      *)
(***************************************************************************)
\* the text by which a tool's log entry is recognised
LogText(name) ==
    CASE name = "reboot_router" -> "Router rebooted"
      [] name = "change_wifi_password" -> "WiFi password changed"
      [] name = "change_ssid" -> "SSID changed from"
      [] name = "enable_guest_network" -> "Guest network"
      [] name = "disconnect_device" -> "Device disconnected"
      [] name = "change_channel" -> "Channel changed from"
      [] name = "set_frequency_band" -> "Frequency band changed from"
      [] name = "check_firmware_update" -> "Firmware update check"
      [] name = "run_speed_test" -> "Speed test completed"
      [] OTHER -> "no entry"

C9_LogsOnlyPrepended ==
    [][\A m \in Modules :
        LET before == router_state[m].logs
            after == router_state'[m].logs
        IN  \/ after = before
            \/ /\ Len(after) = Len(before) + 1
               /\ Tail(after) = before
               /\ response'.module = m
               /\ response'.op = "call_tool"
               /\ Contains(after[1], LogText(response'.name))
      ]_vars

\* two entries were written, the reboot after the password change
C9_Witness ==
    \E m \in Modules :
        /\ Len(router_state[m].logs) >= 7
        /\ Contains(router_state[m].logs[1], "Router rebooted")
        /\ Contains(router_state[m].logs[2], "WiFi password changed")
        /\ response.name = "reboot_router"

(***************************************************************************)
(* C10.  In every reachable state, no two entries of connected_devices     *)
(* have the same mac address.                                              *)
(***************************************************************************)
C10_UniqueMacs ==
    \A m \in Modules :
        LET devices == router_state[m].connected_devices IN
        \A i, j \in 1..Len(devices) : devices[i].mac = devices[j].mac => i = j

\* two devices were disconnected and one is left
C10_Witness ==
    /\ response.op = "call_tool"
    /\ response.name = "disconnect_device"
    /\ Status(response) = "success"
    /\ Len(router_state[response.module].connected_devices) = 1

(***************************************************************************)
(* C11.  Every run_speed_test call, however many came before it, leaves    *)
(* network_stats as it was and returns latency_ms within 2 of the stored   *)
(* latency_ms, download_mbps within 5 of the stored download_speed_mbps    *)
(* and upload_mbps within 3 of the stored upload_speed_mbps (speeds are    *)
(* held in hundredths of a Mbps).                                          *)
(***************************************************************************)
Abs(n) == IF n < 0 THEN -n ELSE n

C11_SpeedTestKeepsBaseline ==
    [][\A m \in Modules :
        ToolStep(m, "run_speed_test") =>
            LET stats == router_state[m].network_stats
                result == Payload(response')
            IN
            /\ router_state'[m].network_stats = stats
            /\ Abs(result.latency_ms - stats.latency_ms) <= 2
            /\ Abs(result.download_mbps - stats.download_speed_mbps) <= 500
            /\ Abs(result.upload_mbps - stats.upload_speed_mbps) <= 300
      ]_vars

\* a second speed test in a row, this one at the top of every range
C11_Witness ==
    /\ response.module = "shared"
    /\ response.op = "call_tool"
    /\ response.name = "run_speed_test"
    /\ response.result.download_mbps
         = router_state["shared"].network_stats.download_speed_mbps + 500
    /\ response.result.latency_ms = router_state["shared"].network_stats.latency_ms + 2
    /\ Contains(router_state["shared"].logs[1], "Speed test completed")
    /\ Contains(router_state["shared"].logs[2], "Speed test completed")

(***************************************************************************)
(* C12.  As claimed: every call of one of the eleven tools returns a       *)
(* result record whose status is success, error or cancelled and which     *)
(* has a message field.                                                    *)
(***************************************************************************)
ResultStatuses == {"success", "error", "cancelled"}

C12_StatusAndMessage ==
    (response.op = "call_tool" /\ response.name \in ToolNames) =>
        /\ response.outcome = "return"
        /\ Status(response) \in ResultStatuses
        /\ "message" \in DOMAIN Payload(response)

(***************************************************************************)
(* C12, amended.  Every call of one of the eleven tools with an argument   *)
(* dict or no arguments returns a result record with a status field.  The  *)
(* status is success, error or cancelled for every tool but                *)
(* get_router_status, whose status is always online; the record has a      *)
(* message field for every tool but scan_networks, get_router_status and   *)
(* run_speed_test, which return their data without one.                    *)
(***************************************************************************)
DataTools == {"scan_networks", "get_router_status", "run_speed_test"}

C12_StatusFieldByTool ==
    (response.op = "call_tool" /\ response.name \in ToolNames) =>
        /\ response.outcome = "return"
        /\ "status" \in DOMAIN Payload(response)
        /\ IF response.name = "get_router_status"
           THEN Status(response) = "online"
           ELSE Status(response) \in ResultStatuses
        /\ ("message" \in DOMAIN Payload(response)) <=> (response.name \notin DataTools)

\* a status report has been returned: status online and no message
C12_Witness ==
    /\ response.op = "call_tool"
    /\ response.name = "get_router_status"
    /\ response.outcome = "return"
    /\ Status(response) = "online"
    /\ "message" \notin DOMAIN Payload(response)

(***************************************************************************)
(* C13.  As claimed: all entry points operate on one RouterState: what a   *)
(* read of the configuration or of the device list returns is the same     *)
(* through the REST surface, the protocol-tool surface and                 *)
(* wifi_router_shared, after any tool calls made through any of them.      *)
(***************************************************************************)
EntryPoints == {"rest", "mcp", "shared"}

\* the resource `resource_id` as a read through entry point e returns it
ReadThrough(e, resource_id) ==
    CASE e = "rest" ->
            read_resource_endpoint(router_state["mcp"], resource_id).result
      [] e = "mcp" ->
            json_loads(read_resource(router_state["mcp"],
                                     resource_uri_map[resource_id]).result)
      [] e = "shared" ->
            read_resource_data(router_state["shared"],
                               resource_uri_map[resource_id]).result

C13_OneRouterState ==
    \A e1, e2 \in EntryPoints :
        /\ ReadThrough(e1, "config") = ReadThrough(e2, "config")
        /\ ReadThrough(e1, "devices") = ReadThrough(e2, "devices")

(***************************************************************************)
(* C14.  As claimed: on the REST surface a POST /tools/{name} call whose   *)
(* argument the tool rejects (password shorter than 8, empty SSID, band    *)
(* outside the allowed set, falsy channel) is answered with HTTP 400       *)
(* carrying the tool's error message.                                      *)
(***************************************************************************)
\* the argument checks of the four tools
BadArgument(name, arguments) ==
    CASE name = "change_wifi_password" -> Len(Get(arguments, "new_password", "")) < 8
      [] name = "change_ssid" -> Get(arguments, "new_ssid", "") = ""
      [] name = "set_frequency_band" ->
            Get(arguments, "band", "") \notin {"2.4GHz", "5GHz", "dual"}
      [] name = "change_channel" -> Get(arguments, "channel", 0) = 0
      [] OTHER -> FALSE

C14_RestRejectionIs400 ==
    ( /\ response.module = "rest"
      /\ response.op = "call_tool"
      /\ BadArgument(response.name, response.arguments) ) =>
        /\ http_status(response) = 400
        /\ response.result.detail # ""

(***************************************************************************)
(* C15.  Resource outputs do not depend on the stored passwords: two runs  *)
(* whose states differ only in password and guest_password return the     *)
(* same output for each of the five resources, also after further tool     *)
(* calls have been applied to both.                                        *)
(***************************************************************************)
\* rs with its two secrets blanked
WithoutSecrets(rs) == [rs EXCEPT !.password = "", !.guest_password = ""]

C15_ResourcesIgnorePasswords ==
    \A uri \in ResourceUris :
        read_resource_data(twin_state, uri).result
            = read_resource_data(router_state["shared"], uri).result

\* the two runs hold different passwords and different guest passwords,
\* agree on all else, and the configuration has just been read
C15_Witness ==
    /\ twin_state.password # router_state["shared"].password
    /\ twin_state.guest_password # router_state["shared"].guest_password
    /\ WithoutSecrets(twin_state) = WithoutSecrets(router_state["shared"])
    /\ response.op = "read_resource"
    /\ response.name = "router://config"
    /\ response.outcome = "return"

(***************************************************************************)
(* C16.  With requests served at the same time, no resource read and no    *)
(* tool call starts from a state in which only part of a call's mutation   *)
(* has been applied: uptime_seconds already 0 while the reboot log entry   *)
(* is missing, or a device already removed while its disconnect log entry  *)
(* is missing.                                                             *)
(***************************************************************************)
\* uptime_seconds is 0 and no log entry tells of the reboot
PartialReboot(rs) ==
    /\ rs.uptime_seconds = 0
    /\ \A i \in 1..Len(rs.logs) : rs.logs[i] # Stamp("Router rebooted")

\* a device of the start-up list is gone and no log entry tells of it
PartialDisconnect(rs) ==
    \E k \in 1..Len(McpRouterState.connected_devices) :
        LET device == McpRouterState.connected_devices[k] IN
        /\ device.mac \notin Macs(rs.connected_devices)
        /\ \A i \in 1..Len(rs.logs) :
                rs.logs[i] # Stamp("Device disconnected: " \o device.name
                                   \o " (" \o device.mac \o ")")

C16_NoPartialMutationSeen ==
    [][\A t \in AsyncTasks :
        (tasks[t].pc = "ready" /\ tasks'[t].pc # "ready") =>
            /\ ~PartialReboot(router_state["mcp"])
            /\ ~PartialDisconnect(router_state["mcp"])
      ]_vars

\* a reboot has set uptime_seconds and not yet written its log entry while
\* a read of the logs is waiting on the other task
C16_Witness ==
    \E t, u \in AsyncTasks :
        /\ tasks[t].pc = "reboot_log"
        /\ PartialReboot(router_state["mcp"])
        /\ tasks[u].pc = "ready"
        /\ tasks[u].op = "read_resource"
        /\ tasks[u].name = "logs"

(***************************************************************************)
(* C17.  When two (or more) disconnect_device calls for the same connected *)
(* mac are served at the same time, none of them fails with an exception,  *)
(* exactly one returns status success and the others return status error,  *)
(* only that device is removed, and exactly one log entry tells of it.     *)
(***************************************************************************)
\* the status field in the answer of task t
TaskStatus(t) ==
    IF tasks[t].surface = "mcp"
    THEN json_loads(tasks[t].result[1].text).status
    ELSE tasks[t].result.status

\* the answered disconnect_device calls for mac
DisconnectCalls(mac) ==
    { t \in AsyncTasks : /\ tasks[t].pc = "done"
                         /\ tasks[t].name = "disconnect_device"
                         /\ tasks[t].arguments = [mac_address |-> mac] }

C17_DisconnectSerialized ==
    \A k \in 1..Len(McpRouterState.connected_devices) :
        LET device == McpRouterState.connected_devices[k]
            calls == DisconnectCalls(device.mac)
            rs == router_state["mcp"]
        IN
        Cardinality(calls) >= 2 =>
            /\ \A t \in calls : tasks[t].outcome = "return"
            /\ \A t \in calls : TaskStatus(t) \in {"success", "error"}
            /\ Cardinality({ t \in calls : TaskStatus(t) = "success" }) = 1
            /\ rs.connected_devices = ListRemove(McpRouterState.connected_devices, device)
            /\ Cardinality({ i \in 1..Len(rs.logs) :
                                rs.logs[i] = Stamp("Device disconnected: " \o device.name
                                                   \o " (" \o device.mac \o ")") }) = 1

\* two calls for the same mac have been answered, and the second arrived
\* while the first was still in flight
C17_Witness ==
    \E t, u \in AsyncTasks :
        /\ t # u
        /\ {t, u} \subseteq DisconnectCalls("AA:BB:CC:DD:EE:01")
        /\ t \in tasks[u].along
        /\ TaskStatus(t) = "success"
        /\ TaskStatus(u) = "error"

(***************************************************************************)
(* C18.  Reading any resource, building any prompt, and calling            *)
(* scan_networks or get_router_status leave the RouterState as it was,     *)
(* logs included, whether the request is answered or fails.                *)
(***************************************************************************)
ReadOnlyTools == {"scan_networks", "get_router_status"}

C18_ReadsLeaveState ==
    [][\A m \in Modules :
        ( /\ response'.module = m
          /\ \/ response'.op \in {"read_resource", "get_prompt"}
             \/ response'.op = "call_tool" /\ response'.name \in ReadOnlyTools ) =>
            router_state' = router_state
      ]_vars

\* after two logged changes, a prompt has been built and returned
C18_Witness ==
    /\ response.module = "shared"
    /\ response.op = "get_prompt"
    /\ response.name = "security_audit"
    /\ response.outcome = "return"
    /\ Len(router_state["shared"].logs) = Len(SharedRouterState.logs) + 2

(***************************************************************************)
(* C19.  As claimed: enable_guest_network called without its required      *)
(* enabled argument returns status error and leaves                        *)
(* guest_network_enabled, guest_ssid, guest_password and logs unchanged.   *)
(***************************************************************************)
C19_GuestNetworkNeedsEnabled ==
    [][\A m \in Modules :
        ( /\ ToolStep(m, "enable_guest_network")
          /\ "enabled" \notin DOMAIN response'.arguments ) =>
            /\ Status(response') = "error"
            /\ router_state'[m].guest_network_enabled = router_state[m].guest_network_enabled
            /\ router_state'[m].guest_ssid = router_state[m].guest_ssid
            /\ router_state'[m].guest_password = router_state[m].guest_password
            /\ router_state'[m].logs = router_state[m].logs
      ]_vars

(***************************************************************************)
(* C20.  change_channel(channel) with any non-zero channel returns status  *)
(* success, sets channel to that value and prepends one log entry,         *)
(* whatever the frequency band; with the channel missing or 0 it returns   *)
(* status error and leaves channel and logs unchanged.                     *)
(***************************************************************************)
C20_ChangeChannel ==
    [][\A m \in Modules :
        ToolStep(m, "change_channel") =>
            LET channel == Get(response'.arguments, "channel", 0)
                before == router_state[m]
                after == router_state'[m]
            IN
            IF channel # 0
            THEN /\ Status(response') = "success"
                 /\ after.channel = channel
                 /\ Len(after.logs) = Len(before.logs) + 1
                 /\ Tail(after.logs) = before.logs
                 /\ after.logs[1] = Stamp("Channel changed from " \o ToString(before.channel)
                                          \o " to " \o ToString(channel))
            ELSE /\ Status(response') = "error"
                 /\ after.channel = before.channel
                 /\ after.logs = before.logs
      ]_vars

\* channel 36 has been set while the band is 2.4GHz
C20_Witness ==
    /\ response.module = "shared"
    /\ response.op = "call_tool"
    /\ response.name = "change_channel"
    /\ response.result.status = "success"
    /\ router_state["shared"].channel = 36
    /\ router_state["shared"].frequency_band = "2.4GHz"

(***************************************************************************)
(* C21.  enable_guest_network with enabled true sets guest_network_enabled *)
(* to true and overwrites guest_ssid and guest_password only with supplied *)
(* non-empty values; with enabled false it sets the flag to false and      *)
(* leaves guest_ssid and guest_password as they were even when values are  *)
(* supplied; either call prepends exactly one log entry and changes no     *)
(* other field.                                                            *)
(***************************************************************************)
C21_EnableGuestNetwork ==
    [][\A m \in Modules :
        ( /\ ToolStep(m, "enable_guest_network")
          /\ "enabled" \in DOMAIN response'.arguments ) =>
            LET arguments == response'.arguments
                guest_ssid == Get(arguments, "guest_ssid", "")
                guest_password == Get(arguments, "guest_password", "")
                old == router_state[m]
                new == router_state'[m]
            IN
            /\ new.guest_network_enabled = arguments["enabled"]
            /\ new.guest_ssid = IF arguments["enabled"] /\ guest_ssid # ""
                                THEN guest_ssid ELSE old.guest_ssid
            /\ new.guest_password = IF arguments["enabled"] /\ guest_password # ""
                                    THEN guest_password ELSE old.guest_password
            /\ Len(new.logs) = Len(old.logs) + 1
            /\ Tail(new.logs) = old.logs
            /\ [new EXCEPT !.guest_network_enabled = old.guest_network_enabled,
                           !.guest_ssid = old.guest_ssid,
                           !.guest_password = old.guest_password,
                           !.logs = old.logs] = old
      ]_vars

\* the guest network was enabled with an empty SSID, which kept the stored
\* one, and has now been disabled with an SSID and a password supplied
C21_Witness ==
    /\ response.module = "shared"
    /\ response.op = "call_tool"
    /\ response.name = "enable_guest_network"
    /\ response.arguments = [enabled |-> FALSE, guest_ssid |-> "Kids_WiFi",
                             guest_password |-> "longenough1"]
    /\ Len(router_state["shared"].logs) = Len(SharedRouterState.logs) + 2
    /\ router_state["shared"].logs[2] = Stamp("Guest network enabled: XiaoYi_Guest")
    /\ ~router_state["shared"].guest_network_enabled
    /\ router_state["shared"].guest_ssid = "XiaoYi_Guest"
    /\ router_state["shared"].guest_password = "guest123"

(***************************************************************************)
(* C22.  In every reachable state, router://config returns guest_ssid and  *)
(* guest_password as null exactly when guest_network_enabled is false;     *)
(* when it is true, guest_ssid is the stored guest SSID and guest_password *)
(* is the fixed mask.                                                      *)
(***************************************************************************)
C22_ConfigGuestFields ==
    \A m \in Modules :
        LET config == ConfigOf(m)
            rs == router_state[m]
        IN
        /\ (config.guest_ssid = Null) <=> ~rs.guest_network_enabled
        /\ (config.guest_password = Null) <=> ~rs.guest_network_enabled
        /\ rs.guest_network_enabled =>
                /\ config.guest_ssid = Some(rs.guest_ssid)
                /\ config.guest_password = Some("********")

\* the configuration has been read while the guest network is on under a
\* new SSID, after an earlier read with the guest network off
C22_Witness ==
    /\ response.module = "shared"
    /\ response.op = "read_resource"
    /\ response.name = "router://config"
    /\ response.outcome = "return"
    /\ response.result.guest_ssid = Some("Kids_WiFi")
    /\ response.result.guest_password = Some("********")
    /\ router_state["shared"].guest_password = "longenough1"

(***************************************************************************)
(* C23.  In every reachable state, and with any security mode and any      *)
(* password put in its place, security_audit reports the score             *)
(*   30, 20 or 5 for security mode WPA3, WPA2 or other                     *)
(* + 25, 20, 10 or 0 for a password of length >= 16, >= 12, >= 8 or less   *)
(* + 15 when the SSID contains neither default nor admin in any case       *)
(* + 15 when the guest network is enabled, and 15 more when then the guest *)
(*   password differs from the main password;                              *)
(* the score lies between 0 and 100 and building the report leaves the     *)
(* RouterState as it was.                                                  *)
(***************************************************************************)
\* security modes and passwords the score is looked at for
AuditModes == {"WPA3", "WPA2", "WEP"}
AuditPasswords == {"short12", "********", "twelve_chars", "sixteen_chars_pw", "guest123"}

\* the score as the claim words it
ClaimedScore(rs) ==
    LET mode_points == CASE rs.security_mode = "WPA3" -> 30
                         [] rs.security_mode = "WPA2" -> 20
                         [] OTHER -> 5
        n == Len(rs.password)
        password_points == CASE n >= 16 -> 25
                             [] n < 16 /\ n >= 12 -> 20
                             [] n < 12 /\ n >= 8 -> 10
                             [] OTHER -> 0
        ssid_points == IF \/ Contains(Lower(rs.ssid), "default")
                          \/ Contains(Lower(rs.ssid), "admin")
                       THEN 0 ELSE 15
        guest_points == IF ~rs.guest_network_enabled THEN 0
                        ELSE IF rs.guest_password = rs.password THEN 15 ELSE 30
    IN  mode_points + password_points + ssid_points + guest_points

\* the security_audit prompt of module m built on state rs
AuditOf(m, rs) ==
    IF m = "mcp"
    THEN get_prompt(rs, "security_audit", EmptyDict)
    ELSE get_prompt_data(rs, "security_audit", EmptyDict)

\* the line of the report that carries the score
ScoreLine(out) == out.result.messages[1].content.text[2]

C23_SecurityScore ==
    \A m \in Modules :
        ( /\ response.module = m
          /\ response.op = "get_prompt"
          /\ response.name = "security_audit" ) =>
            /\ response.outcome = "return"
            /\ ScoreLine(response) = "### Overall Security Score: "
                                        \o ToString(ClaimedScore(router_state[m])) \o "/100"
            /\ \A mode \in AuditModes, pw \in AuditPasswords :
                LET rs == [router_state[m] EXCEPT !.security_mode = mode, !.password = pw]
                    out == AuditOf(m, rs)
                IN
                /\ out.outcome = "return"
                /\ ScoreLine(out) = "### Overall Security Score: "
                                        \o ToString(ClaimedScore(rs)) \o "/100"
                /\ ClaimedScore(rs) \in 0..100
                /\ out.state = rs

\* an audit has been returned for a state with the guest network on and a
\* guest password equal to the main password of 11 characters:
\* 30 + 10 + 15 + 15
C23_Witness ==
    /\ response.module = "shared"
    /\ response.op = "get_prompt"
    /\ response.name = "security_audit"
    /\ response.outcome = "return"
    /\ router_state["shared"].guest_network_enabled
    /\ router_state["shared"].guest_password = router_state["shared"].password
    /\ response.result.messages[1].content.text[2] = "### Overall Security Score: 70/100"

(***************************************************************************)
(* C24.  As claimed: for every issue_type, troubleshoot_connection returns *)
(* a {description, messages} result whose text is the template of that     *)
(* issue type filled with the current state; an unknown or absent          *)
(* issue_type yields the no_connection template.                           *)
(***************************************************************************)
\* the first line of the template chosen for issue_type
TemplateTitle(issue_type) ==
    CASE issue_type = "slow_speed" -> "## Troubleshooting Slow WiFi Speed"
      [] issue_type = "intermittent" -> "## Troubleshooting Intermittent Connection"
      [] issue_type = "device_cant_connect" -> "## Troubleshooting Device Connection Issues"
      [] OTHER -> "## Troubleshooting No Connection"

C24_TroubleshootTemplates ==
    (response.op = "get_prompt" /\ response.name = "troubleshoot_connection") =>
        /\ response.outcome = "return"
        /\ DOMAIN response.result = {"description", "messages"}
        /\ response.result.messages[1].content.text[1]
                = TemplateTitle(Get(response.arguments, "issue_type", "no_connection"))

(***************************************************************************)
(* C25.  No sequence of tool calls changes is_on, max_devices,             *)
(* security_mode, firmware_version or available_networks; is_on is true in *)
(* every reachable state, and check_firmware_update always reports         *)
(* update_available false with latest_version equal to current_version.    *)
(***************************************************************************)
\* the RouterState module m constructs at import
StartState(m) == IF m = "shared" THEN SharedRouterState ELSE McpRouterState

C25_FixedFields ==
    \A m \in Modules :
        LET rs == router_state[m]
            start == StartState(m)
        IN
        /\ rs.is_on = start.is_on
        /\ rs.is_on
        /\ rs.max_devices = start.max_devices
        /\ rs.security_mode = start.security_mode
        /\ rs.firmware_version = start.firmware_version
        /\ rs.available_networks = start.available_networks
        /\ ( /\ response.module = m
             /\ response.op = "call_tool"
             /\ response.name = "check_firmware_update"
             /\ response.arguments # None ) =>
                /\ response.outcome = "return"
                /\ Payload(response).update_available = FALSE
                /\ Payload(response).latest_version = Payload(response).current_version
                /\ Payload(response).current_version = rs.firmware_version

\* a firmware check answered right after a reboot
C25_Witness ==
    /\ response.module = "shared"
    /\ response.op = "call_tool"
    /\ response.name = "check_firmware_update"
    /\ response.result.update_available = FALSE
    /\ Len(router_state["shared"].logs) = Len(SharedRouterState.logs) + 2
    /\ router_state["shared"].logs[2] = Stamp("Router rebooted")
    /\ router_state["shared"].is_on

(***************************************************************************)
(* C26.  In every reachable state the stored password has length at least *)
(* 8, ssid is non-empty, channel is non-zero and frequency_band is one of  *)
(* 2.4GHz, 5GHz and dual; hence no security_audit report carries the       *)
(* recommendation that the password is too short.                          *)
(***************************************************************************)
\* some line of the text holds `words`
Mentions(text, words) == \E i \in 1..Len(text) : Contains(text[i], words)

C26_ValidatedFields ==
    \A m \in Modules :
        LET rs == router_state[m] IN
        /\ Len(rs.password) >= 8
        /\ rs.ssid # ""
        /\ rs.channel # 0
        /\ rs.frequency_band \in {"2.4GHz", "5GHz", "dual"}
        /\ ( /\ response.module = m
             /\ response.op = "get_prompt"
             /\ response.name = "security_audit" ) =>
                /\ response.outcome = "return"
                /\ ~Mentions(response.result.messages[1].content.text,
                             "Password is too short")

\* an audit has been returned after the shortest password that is accepted
\* was stored and the channel was changed
C26_Witness ==
    /\ response.module = "shared"
    /\ response.op = "get_prompt"
    /\ response.name = "security_audit"
    /\ response.outcome = "return"
    /\ router_state["shared"].password = "********"
    /\ router_state["shared"].channel = -1
    /\ Mentions(response.result.messages[1].content.text, "Use a longer password")

(***************************************************************************)
(* C27.  Every step leaves connected_devices an order-preserving sub-list  *)
(* of what it was: no tool adds, reorders or modifies a device.  So the    *)
(* list is always a sub-list of the initial device list and the device     *)
(* count never increases.                                                  *)
(***************************************************************************)
RECURSIVE IsSubList(_, _)
\* s is t with some elements left out
IsSubList(s, t) ==
    IF s = <<>> THEN TRUE
    ELSE IF t = <<>> THEN FALSE
    ELSE IF Head(s) = Head(t) THEN IsSubList(Tail(s), Tail(t))
    ELSE IsSubList(s, Tail(t))

C27_DevicesOnlyShrink ==
    [][\A m \in Modules :
        /\ IsSubList(router_state'[m].connected_devices, router_state[m].connected_devices)
        /\ IsSubList(router_state'[m].connected_devices, StartState(m).connected_devices)
        /\ Len(router_state'[m].connected_devices) <= Len(router_state[m].connected_devices)
      ]_vars

\* the first and the last device have been disconnected: the middle one is left
C27_Witness ==
    /\ response.module = "shared"
    /\ response.op = "call_tool"
    /\ response.name = "disconnect_device"
    /\ response.result.status = "success"
    /\ router_state["shared"].connected_devices
            = << SharedRouterState.connected_devices[2] >>

(***************************************************************************)
(* C28.  uptime_seconds never increases: a step changes it only when it is *)
(* a reboot_router call with confirm true, which sets it to 0, and no step *)
(* moves it away from 0.  So it keeps its initial value until the first    *)
(* confirmed reboot and is 0 in every state after it.                      *)
(***************************************************************************)
C28_UptimeOnlyReset ==
    [][\A m \in Modules :
        LET old == router_state[m].uptime_seconds
            new == router_state'[m].uptime_seconds
            reboot == /\ ToolStep(m, "reboot_router")
                      /\ Get(response'.arguments, "confirm", FALSE)
        IN
        /\ new <= old
        /\ reboot => new = 0
        /\ ~reboot => new = old
        /\ old = 0 => new = 0
        /\ new \in {0, StartState(m).uptime_seconds}
      ]_vars

\* a channel change made after a confirmed reboot: the uptime is still 0
C28_Witness ==
    /\ response.module = "shared"
    /\ response.op = "call_tool"
    /\ response.name = "change_channel"
    /\ response.result.status = "success"
    /\ router_state["shared"].logs[2] = Stamp("Router rebooted")
    /\ router_state["shared"].uptime_seconds = 0

(***************************************************************************)
(* C29.  As claimed: after any sequence of tool calls the connected_devices*)
(* counter returned by the stats resource equals total_devices returned by *)
(* the devices resource and the connected_devices count returned by        *)
(* get_router_status.                                                      *)
(***************************************************************************)
C29_DeviceCountsAgree ==
    LET rs == router_state["shared"]
        stats == read_resource_data(rs, "router://stats").result
        devices == read_resource_data(rs, "router://devices").result
        status == call_tool_data(rs, "get_router_status", EmptyDict, NoDraw).result
    IN
    /\ stats.connected_devices = devices.total_devices
    /\ stats.connected_devices = status.connected_devices

(***************************************************************************)
(* C30.  Started from equal states, call_tool_data of wifi_router_shared   *)
(* and call_tool of wifi_router_mcp.server produce the same result record  *)
(* and the same successor state for every tool name and every argument     *)
(* dictionary, random draws and timestamps being equal.  Stated at every   *)
(* served tool call: both handlers are applied to the state the call       *)
(* started from.                                                           *)
(***************************************************************************)
\* the result record of a call: call_tool wraps it as JSON text in one TextContent
ResultRecord(handler, out) ==
    IF handler = "call_tool" /\ out.outcome = "return"
    THEN json_loads(out.result[1].text)
    ELSE out.result

\* the two handlers agree on one call
SameAnswer(rs, name, arguments, rnd) ==
    LET data == call_tool_data(rs, name, arguments, rnd)
        text == call_tool(rs, name, arguments, rnd)
    IN
    /\ data.outcome = text.outcome
    /\ data.state = text.state
    /\ ResultRecord("call_tool_data", data) = ResultRecord("call_tool", text)

C30_HandlersAgree ==
    [][\A m \in Modules :
        ( /\ response'.module = m
          /\ response'.op = "call_tool"
          /\ response'.arguments # None ) =>
            /\ \A rnd \in DrawsFor(response'.name) :
                    SameAnswer(router_state[m], response'.name, response'.arguments, rnd)
            /\ \E rnd \in DrawsFor(response'.name) :
                    LET data == call_tool_data(router_state[m], response'.name,
                                               response'.arguments, rnd)
                    IN  /\ data.state = router_state'[m]
                        /\ data.outcome = response'.outcome
                        /\ data.result = ResultRecord(IF m = "mcp" THEN "call_tool"
                                                      ELSE "call_tool_data", response')
      ]_vars

\* both handlers accepted set_frequency_band('dual') on the shared module's state
C30_Witness ==
    /\ response.module = "shared"
    /\ response.op = "call_tool"
    /\ response.name = "set_frequency_band"
    /\ response.arguments = [band |-> "dual"]
    /\ response.result.status = "success"
    /\ router_state["shared"].frequency_band = "dual"

====
